---- MODULE Spec2Model ----
(***************************************************************************)
(* Point-of-sale system: the REST handlers of src/server/routes (sales,    *)
(* stock movements, products, fiscal receipts), the Database singleton of  *)
(* src/server/database/connection.js with its in-memory fallback, and the  *)
(* cash-register components of src/src/components/EnhancedPDV.tsx          *)
(* (EnhancedPDV and SalesManagement: cart, finalizeSale).                   *)
(*                                                                         *)
(* Money is counted in cents.  A JavaScript number that may be undefined   *)
(* or NaN is a record [t, v] (Num, Undef, NaN below).  uuidv4() and        *)
(* new Date() are drawn from the counter nextId: ids are unique and        *)
(* created_at grows with every request.                                    *)
(***************************************************************************)
EXTENDS Integers, Sequences, FiniteSets, TLC

\* ------------------------------------------------------------------ bounds
\* Number of create requests the server handles (ids handed out).
MaxRecords == 2
\* Largest stock value the environment sets for a product.
MaxStock == 2
\* Largest quantity passed to addToCart.
MaxAddQty == 2
\* Number of finalizeSale invocations awaiting at the same time.
MaxCalls == 2
\* Number of checkouts of a register session.
MaxCheckouts == 1

\* ------------------------------------------------------- JavaScript values
Num(n) == [t |-> "num", v |-> n]
Undef == [t |-> "undefined", v |-> 0]
NaN == [t |-> "NaN", v |-> 0]

\* a * q where q is a number: undefined * q and NaN * q are NaN
JsMul(a, q) == IF a.t = "num" THEN Num(a.v * q) ELSE NaN
JsAdd(a, b) == IF a.t = "num" /\ b.t = "num" THEN Num(a.v + b.v) ELSE NaN
JsSub(a, b) == IF a.t = "num" /\ b.t = "num" THEN Num(a.v - b.v) ELSE NaN
\* x || 0 : undefined, NaN and 0 are falsy
OrZero(x) == IF x.t = "num" /\ x.v # 0 THEN x ELSE Num(0)

Undefined == "undefined"
NULL == "null"

\* ------------------------------------------------------------ the catalogue
Products == {"p1", "p2"}
Price == [p \in Products |-> IF p = "p1" THEN 850 ELSE 320]

\* ------------------------------------------------ principals and requests
\* req.user as the token carries it (auth.js:82-86 and 129-138): the
\* super-admin token has no businessId.
Principals ==
    { [id |-> "u1", role |-> "admin", businessId |-> "b1"],
      [id |-> "u2", role |-> "operator", businessId |-> "b2"],
      [id |-> "super-admin", role |-> "super_admin", businessId |-> Undefined] }
NoPrincipal == [id |-> "", role |-> "", businessId |-> Undefined]
\* the principals of the two tenants
TenantPrincipals == {p \in Principals : p.role # "super_admin"}
\* values of the X-Business-ID request header (Undefined: header not sent)
Headers == {Undefined, "b2"}

\* An item of a create-sale body.  The handler reads productId, quantity
\* and price; the register sends productId, quantity and unitPrice.
ServerLine(p, q) ==
    [productId |-> p, quantity |-> q, price |-> Num(Price[p]), unitPrice |-> Undef]
ClientLine(p, q, unitPrice) ==
    [productId |-> p, quantity |-> q, price |-> Undef, unitPrice |-> Num(unitPrice)]
\* request bodies sent straight to POST /api/sales
ApiBodies ==
    { [hasItems |-> FALSE, items |-> << >>, discount |-> Undef],
      [hasItems |-> TRUE, items |-> << >>, discount |-> Undef],
      [hasItems |-> TRUE, items |-> <<ServerLine("p1", 2), ServerLine("p2", 1)>>,
       discount |-> Num(20)],
      [hasItems |-> TRUE, items |-> <<ClientLine("p1", 1, 850)>>, discount |-> Undef] }

VARIABLES
    pool,                   \* database.pool: NULL or "pool"
    isConnected,            \* database.isConnected
    dbSales,                \* committed rows of table sales, in commit order
    dbSaleItems,            \* committed rows of table sale_items
    fallbackSales,          \* sales.js: let fallbackSales = []
    fallbackSaleItems,      \* sales.js: let fallbackSaleItems = []
    dbStockMovements,       \* committed rows of table stock_movements
    fallbackStockMovements, \* stock route: let fallbackStockMovements = []
    dbProducts,             \* committed rows of table products
    fallbackProducts,       \* products route: let fallbackProducts = []
    dbNFCe,                 \* committed rows of table nfce
    fallbackNFCe,           \* nfce route: let fallbackNFCe = []
    tx,                     \* the create-sale transaction in flight: << >> or <<t>>
    nextId,                 \* source of uuidv4() and new Date()
    response,               \* the last HTTP response sent
    stock,                  \* useProducts: current stock of each product
    cart,                   \* useState<CartItem[]>([]) of each register
    paymentModalOpen,       \* EnhancedPDV: paymentModalOpen
    selectedPaymentMethod,  \* selectedPaymentMethod of each register
    notifications,          \* showNotification calls of each register's last handler
    calls,                  \* the finalizeSale invocations that are awaiting
    stockMovements,         \* useStockMovements: movements issued by addMovement
    dbBusinesses,           \* committed rows of table businesses
    fallbackBusinesses,     \* business.js: let fallbackBusinesses = []
    sales,                  \* SalesManagement: useSales().sales
    searchTerm,             \* SalesManagement: searchTerm
    dateFilter,             \* SalesManagement: dateFilter
    paymentFilter,          \* SalesManagement: paymentFilter
    now,                    \* the clock: new Date()
    isStandBy,              \* EnhancedPDV: isStandBy
    scannerOpen,            \* EnhancedPDV: scannerOpen
    standbyTimer,           \* EnhancedPDV: the timeout of standbyTimerRef, "armed" or "none"
    dbUsers,                \* rows of table users
    dbUserCredentials,      \* rows of table user_credentials
    fallbackData,           \* auth.js: let fallbackData = { users: [], userCredentials: [] }
    held                    \* connections got from pool.getConnection() and not released

storeVars == <<dbSales, dbSaleItems, fallbackSales, fallbackSaleItems>>
businessVars == <<dbBusinesses, fallbackBusinesses>>
viewVars == <<sales, searchTerm, dateFilter, paymentFilter, now>>
standbyVars == <<isStandBy, scannerOpen, standbyTimer>>
authVars == <<dbUsers, dbUserCredentials, fallbackData>>
otherStoreVars ==
    <<dbStockMovements, fallbackStockMovements, dbProducts, fallbackProducts,
      dbNFCe, fallbackNFCe, dbBusinesses, fallbackBusinesses,
      dbUsers, dbUserCredentials, fallbackData>>
connVars == <<pool, isConnected>>
vars == <<pool, isConnected, dbSales, dbSaleItems, fallbackSales, fallbackSaleItems,
          dbStockMovements, fallbackStockMovements, dbProducts, fallbackProducts,
          dbNFCe, fallbackNFCe, tx, nextId, response,
          stock, cart, paymentModalOpen, selectedPaymentMethod, notifications, calls,
          stockMovements, dbBusinesses, fallbackBusinesses,
          sales, searchTerm, dateFilter, paymentFilter, now,
          isStandBy, scannerOpen, standbyTimer,
          dbUsers, dbUserCredentials, fallbackData, held>>
clientVars ==
    <<stock, cart, paymentModalOpen, selectedPaymentMethod, notifications, stockMovements,
      sales, searchTerm, dateFilter, paymentFilter, now,
      isStandBy, scannerOpen, standbyTimer>>
serverVars ==
    <<pool, isConnected, dbSales, dbSaleItems, fallbackSales, fallbackSaleItems,
      dbStockMovements, fallbackStockMovements, dbProducts, fallbackProducts,
      dbNFCe, fallbackNFCe, dbBusinesses, fallbackBusinesses, tx, nextId, response,
      dbUsers, dbUserCredentials, fallbackData, held>>


\* ------------------------------------------------------------ connection.js
\* const connection = await this.pool.getConnection()
getConnection == held' = held + 1

\* connection.release()
release == held' = held - 1

\* Database.connect(): configured = MYSQL_HOST or MYSQL_URL is set,
\* reachable = pool.getConnection() succeeds.
connect(configured, reachable) ==
    IF isConnected /\ pool # NULL
    THEN UNCHANGED connVars
    ELSE IF ~configured
         THEN isConnected' = FALSE /\ pool' = pool
         ELSE pool' = "pool" /\ isConnected' = reachable

\* Database.close()
close ==
    IF pool # NULL /\ isConnected
    THEN isConnected' = FALSE /\ pool' = pool
    ELSE UNCHANGED connVars

\* The guard of Database.run/get/all/transaction, and the statement failing.
\* mysql2 refuses an undefined bind parameter, so a statement bound to an
\* undefined business id always throws.
RunThrows(fails, businessId) ==
    ~isConnected \/ pool = NULL \/ fails \/ businessId = Undefined

\* safeQuery(operation, fallbackOperation): which of the two produced the
\* result, given whether operation() throws.  "fallback after error": the
\* catch block logged 'Database error, using fallback'.
safeQuery(opThrows) ==
    IF pool = NULL THEN "fallback"
    ELSE IF opThrows THEN "fallback after error" ELSE "db"

\* --------------------------------------------------------------- helpers
\* req.headers['x-business-id'] || req.user.businessId
BusinessIdOf(header, principal) ==
    IF header # Undefined THEN header ELSE principal.businessId

\* the elements of a sequence
Range(f) == {f[i] : i \in DOMAIN f}

Uuid(n) == ToString(n)

RECURSIVE SumLines(_, _)
\* items.reduce((sum, item) => sum + (item.price * item.quantity), 0)
SumLines(items, sum) ==
    IF items = << >> THEN sum
    ELSE SumLines(Tail(items), JsAdd(sum, JsMul(Head(items).price, Head(items).quantity)))

FinalTotal(items, discount) == JsSub(SumLines(items, Num(0)), OrZero(discount))

SaleData(principal, businessId, body, paymentMethod) ==
    [id |-> Uuid(nextId),
     business_id |-> businessId,
     user_id |-> principal.id,
     total |-> FinalTotal(body.items, body.discount),
     discount |-> OrZero(body.discount),
     payment_method |-> IF paymentMethod = Undefined THEN "dinheiro" ELSE paymentMethod,
     customer_name |-> "",
     status |-> "completed",
     created_at |-> nextId]

SaleItemRows(saleId, items) ==
    [i \in 1..Len(items) |->
        [id |-> <<saleId, i>>,
         sale_id |-> saleId,
         product_id |-> items[i].productId,
         quantity |-> items[i].quantity,
         price |-> items[i].price,
         total |-> JsMul(items[i].price, items[i].quantity)]]

RECURSIVE OrderByCreatedAtDesc(_)
\* ORDER BY created_at DESC
OrderByCreatedAtDesc(rows) ==
    IF rows = << >> THEN << >>
    ELSE LET m == CHOOSE i \in 1..Len(rows) :
                    \A j \in 1..Len(rows) : rows[j].created_at <= rows[i].created_at
             rest == [k \in 1..(Len(rows) - 1) |-> IF k < m THEN rows[k] ELSE rows[k + 1]]
         IN <<rows[m]>> \o OrderByCreatedAtDesc(rest)

ItemsCount(saleItems, saleId) ==
    Len(SelectSeq(saleItems, LAMBDA si : si.sale_id = saleId))

WithItemsCount(rows, saleItems) ==
    [i \in 1..Len(rows) |->
        [sale |-> rows[i], items_count |-> ItemsCount(saleItems, rows[i].id)]]

Resp(op, status, principal, header, body, served) ==
    [op |-> op, status |-> status, principal |-> principal, header |-> header,
     body |-> body, served |-> served]


\* ------------------------------------------------- sales.js: POST /api/sales
\* A slot of calls that holds no invocation.
NoCall == [reg |-> "", cart |-> << >>, paymentMethod |-> "", pc |-> "idle", i |-> 0,
           saleId |-> "", stockBefore |-> << >>]

\* The register's finalizeSale awaiting addSale resumes when the response to
\* its request arrives: 201 resolves addSale, anything else makes it throw.
Deliver(cs, origin, status, saleId) ==
    IF origin = 0 THEN cs
    ELSE IF status = 201
         THEN [cs EXCEPT ![origin].pc = "stock", ![origin].saleId = saleId]
         ELSE [cs EXCEPT ![origin] = NoCall]

\* FallbackCreateSale if the arrays were re-created on every write.
FallbackCreateSaleReplacing(saleData, items) ==
    /\ fallbackSales' = <<saleData>>
    /\ fallbackSaleItems' = SaleItemRows(saleData.id, items)
    /\ UNCHANGED <<dbSales, dbSaleItems>>

\* fallbackOperation of the create: push the sale, then one item per line
FallbackCreateSale(saleData, items) ==
    /\ fallbackSales' = Append(fallbackSales, saleData)
    /\ fallbackSaleItems' = fallbackSaleItems \o SaleItemRows(saleData.id, items)
    /\ UNCHANGED <<dbSales, dbSaleItems>>

\* the statements handed to database.transaction
SaleOperations(saleData, items) ==
    <<[table |-> "sales", row |-> saleData]>> \o
    [i \in 1..Len(items) |-> [table |-> "sale_items", row |-> SaleItemRows(saleData.id, items)[i]]]

\* ItemsMissing if only an absent item list were refused
ItemsMissingOnlyUndefined(body) == ~body.hasItems

\* !items || items.length === 0
ItemsMissing(body) == ~body.hasItems \/ Len(body.items) = 0

\* router.post('/') up to its first await.  origin = 0: a request sent
\* straight to the API; origin = k: the request of finalizeSale call k.
\* cs: the register calls as they are when the request is sent.
PostSale(principal, header, body, paymentMethod, origin, cs, connects) ==
    LET businessId == BusinessIdOf(header, principal)
        saleData == SaleData(principal, businessId, body, paymentMethod)
    IN
    IF ItemsMissing(body)
    THEN /\ connects
         /\ response' = Resp("createSale", 400, principal, header, << >>, "none")
         /\ calls' = Deliver(cs, origin, 400, "")
         /\ UNCHANGED <<storeVars, tx, held, nextId>>
    ELSE /\ nextId <= MaxRecords
         /\ nextId' = nextId + 1
         /\ IF pool # NULL /\ isConnected /\ connects
            THEN \* transaction(): connection acquired, statements to run
                 /\ tx = << >>
                 /\ tx' = <<[origin |-> origin, principal |-> principal, header |-> header,
                             saleData |-> saleData, items |-> body.items,
                             stage |-> "begin", executed |-> 0]>>
                 /\ getConnection
                 /\ calls' = cs
                 /\ UNCHANGED <<storeVars, response>>
            ELSE \* no pool, or transaction() threw before its try block
                 /\ FallbackCreateSale(saleData, body.items)
                 /\ response' = Resp("createSale", 201, principal, header, <<saleData>>,
                                     safeQuery(TRUE))
                 /\ calls' = Deliver(cs, origin, 201, saleData.id)
                 /\ UNCHANGED <<tx, held>>

\* TxRollback if the connection were released after the commit, inside the
\* try block, and not in a finally block.
TxRollbackHoldingConnection(t) ==
    /\ tx' = << >>
    /\ UNCHANGED held
    /\ FallbackCreateSale(t.saleData, t.items)
    /\ response' = Resp("createSale", 201, t.principal, t.header, <<t.saleData>>,
                        "fallback after error")
    /\ calls' = Deliver(calls, t.origin, 201, t.saleData.id)

\* TxRollback if safeQuery let the error of the transaction reach the catch
\* block of the handler: 500 and no fallback write.
TxRollbackSignalsError(t) ==
    /\ tx' = << >>
    /\ release
    /\ UNCHANGED storeVars
    /\ response' = Resp("createSale", 500, t.principal, t.header, << >>, "none")
    /\ calls' = Deliver(calls, t.origin, 500, "")

\* TxRollback if the catch block released the connection without rolling
\* back: the rows already executed become visible.
TxRollbackKeepingExecuted(t) ==
    LET ops == SaleOperations(t.saleData, t.items)
        rowsOf(table) ==
            LET sel == SelectSeq(SubSeq(ops, 1, t.executed), LAMBDA o : o.table = table)
            IN [i \in 1..Len(sel) |-> sel[i].row]
    IN
    /\ tx' = << >>
    /\ release
    /\ dbSales' = dbSales \o rowsOf("sales")
    /\ dbSaleItems' = dbSaleItems \o rowsOf("sale_items")
    /\ fallbackSales' = Append(fallbackSales, t.saleData)
    /\ fallbackSaleItems' = fallbackSaleItems \o SaleItemRows(t.saleData.id, t.items)
    /\ response' = Resp("createSale", 201, t.principal, t.header, <<t.saleData>>,
                        "fallback after error")
    /\ calls' = Deliver(calls, t.origin, 201, t.saleData.id)

\* The end of the catch block of transaction(), the rollback having been
\* awaited: release (finally), and the error, that of the try block or that
\* of a rollback that failed, is thrown; safeQuery catches it and runs the
\* fallback operation; the handler answers 201.
TxRollback(t) ==
    /\ tx' = << >>
    /\ release
    /\ FallbackCreateSale(t.saleData, t.items)
    /\ response' = Resp("createSale", 201, t.principal, t.header, <<t.saleData>>,
                        "fallback after error")
    /\ calls' = Deliver(calls, t.origin, 201, t.saleData.id)

\* commit: the rows written on the connection become visible, release,
\* and the handler answers 201.
TxCommit(t) ==
    LET ops == SaleOperations(t.saleData, t.items)
        rowsOf(table) ==
            LET sel == SelectSeq(SubSeq(ops, 1, t.executed), LAMBDA o : o.table = table)
            IN [i \in 1..Len(sel) |-> sel[i].row]
    IN
    /\ tx' = << >>
    /\ release
    /\ dbSales' = dbSales \o rowsOf("sales")
    /\ dbSaleItems' = dbSaleItems \o rowsOf("sale_items")
    /\ UNCHANGED <<fallbackSales, fallbackSaleItems>>
    /\ response' = Resp("createSale", 201, t.principal, t.header, <<t.saleData>>, "db")
    /\ calls' = Deliver(calls, t.origin, 201, t.saleData.id)

\* One await of Database.transaction: beginTransaction, one execute, commit,
\* or the rollback of the catch block; fails = that call rejects.
TransactionStep(fails) ==
    /\ tx # << >>
    /\ LET t == tx[1]
           n == Len(SaleOperations(t.saleData, t.items))
       IN
       IF t.stage = "rollback"
       THEN TxRollback(t)
       ELSE IF fails \/ (t.stage = "exec" /\ RunThrows(FALSE, t.saleData.business_id))
       THEN /\ tx' = <<[t EXCEPT !.stage = "rollback"]>>
            /\ UNCHANGED <<storeVars, response, calls, held>>
       ELSE CASE t.stage = "begin" ->
                    /\ tx' = <<[t EXCEPT !.stage = "exec"]>>
                    /\ UNCHANGED <<storeVars, response, calls, held>>
              [] t.stage = "exec" ->
                    /\ tx' = <<[t EXCEPT !.executed = t.executed + 1,
                                         !.stage = IF t.executed + 1 = n THEN "commit" ELSE "exec"]>>
                    /\ UNCHANGED <<storeVars, response, calls, held>>
              [] t.stage = "commit" -> TxCommit(t)
    /\ UNCHANGED <<connVars, otherStoreVars, nextId, clientVars>>

\* ------------------------------------------------- sales.js: GET /api/sales
ListSalesFromDb(businessId) ==
    WithItemsCount(
        OrderByCreatedAtDesc(SelectSeq(dbSales, LAMBDA s : s.business_id = businessId)),
        dbSaleItems)

\* ListSalesFromFallback without the sale pushed last.
ListSalesFromFallbackStale(businessId) ==
    LET rows == SelectSeq(fallbackSales, LAMBDA s : s.business_id = businessId)
    IN WithItemsCount(SubSeq(rows, 1, Len(rows) - 1), fallbackSaleItems)

ListSalesFromFallback(businessId) ==
    WithItemsCount(SelectSeq(fallbackSales, LAMBDA s : s.business_id = businessId),
                   fallbackSaleItems)

GetSales(principal, header, fails) ==
    LET businessId == BusinessIdOf(header, principal)
        served == safeQuery(RunThrows(fails, businessId))
    IN
    /\ response' = Resp("listSales", 200, principal, header,
                        IF served = "db" THEN ListSalesFromDb(businessId)
                        ELSE ListSalesFromFallback(businessId),
                        served)
    /\ UNCHANGED <<connVars, storeVars, otherStoreVars, tx, held, nextId, clientVars, calls>>


\* ------------------------------------------ SalesManagement: the sales list
\* the clock counts ticks; the calendar of the model: a day of TicksPerDay
\* ticks, a month of DaysPerMonth days, a year of MonthsPerYear months
TicksPerDay == 2
DaysPerMonth == 2
MonthsPerYear == 2
\* 7 * 24 * 60 * 60 * 1000 ms
DaysPerWeek == 7
\* the last tick of the clock
MaxNow == 15
\* the sales the list holds at most
MaxSales == 2

\* toDateString(): the calendar day of a date
DateString(t) == t \div TicksPerDay
\* getMonth()
GetMonth(t) == (DateString(t) \div DaysPerMonth) % MonthsPerYear
\* getFullYear()
GetFullYear(t) == DateString(t) \div (DaysPerMonth * MonthsPerYear)

\* texts are sequences of characters
ProductName == [p \in Products |-> IF p = "p1" THEN <<"C", "a">> ELSE <<"a", "b">>]
SearchTerms == { << >>, <<"C", "A">>, <<"2">> }
DateFilters == {"today", "week", "month", "all"}
PaymentFilters == {"all", "dinheiro", "pix"}

\* String.prototype.toLowerCase
ToLowerCase(text) ==
    [i \in 1..Len(text) |->
        CASE text[i] = "A" -> "a"
          [] text[i] = "B" -> "b"
          [] text[i] = "C" -> "c"
          [] OTHER -> text[i]]

\* String.prototype.includes
Includes(text, term) ==
    \E i \in 1..(Len(text) - Len(term) + 1) : SubSeq(text, i, i + Len(term) - 1) = term

\* matchesSearch
MatchesSearch(sale) ==
    \/ \E i \in 1..Len(sale.items) :
          Includes(ToLowerCase(sale.items[i].productName), ToLowerCase(searchTerm))
    \/ Includes(ToLowerCase(sale.id), ToLowerCase(searchTerm))

\* MatchesDate if 'today' kept the sales of the last 24 hours
MatchesDateLastDay(sale) ==
    CASE dateFilter = "today" -> sale.date > now - TicksPerDay
      [] dateFilter = "week" -> sale.date >= now - DaysPerWeek * TicksPerDay
      [] dateFilter = "month" -> /\ GetMonth(sale.date) = GetMonth(now)
                                 /\ GetFullYear(sale.date) = GetFullYear(now)
      [] OTHER -> TRUE

\* matchesDate: today = new Date() is the clock when the list is computed
MatchesDate(sale) ==
    CASE dateFilter = "today" -> DateString(sale.date) = DateString(now)
      [] dateFilter = "week" -> sale.date >= now - DaysPerWeek * TicksPerDay
      [] dateFilter = "month" -> /\ GetMonth(sale.date) = GetMonth(now)
                                 /\ GetFullYear(sale.date) = GetFullYear(now)
      [] OTHER -> TRUE

\* matchesPayment
MatchesPayment(sale) == paymentFilter = "all" \/ sale.paymentMethod = paymentFilter

\* sales.filter(sale => matchesSearch && matchesDate && matchesPayment)
filteredSales ==
    SelectSeq(sales, LAMBDA sale : MatchesSearch(sale) /\ MatchesDate(sale) /\ MatchesPayment(sale))

registerVars ==
    <<stock, cart, paymentModalOpen, selectedPaymentMethod, notifications, calls, stockMovements,
      isStandBy, scannerOpen, standbyTimer>>

setSearchTerm(term) ==
    /\ searchTerm' = term
    /\ UNCHANGED <<serverVars, registerVars, sales, dateFilter, paymentFilter, now>>

setDateFilter(filter) ==
    /\ dateFilter' = filter
    /\ UNCHANGED <<serverVars, registerVars, sales, searchTerm, paymentFilter, now>>

setPaymentFilter(filter) ==
    /\ paymentFilter' = filter
    /\ UNCHANGED <<serverVars, registerVars, sales, searchTerm, dateFilter, now>>

\* the Limpar button
ClearFilters ==
    /\ searchTerm' = << >>
    /\ dateFilter' = "today"
    /\ paymentFilter' = "all"
    /\ UNCHANGED <<serverVars, registerVars, sales, now>>

\* useSales: a sale of one line joins the list, dated by the clock
SaleListed(p, method) ==
    /\ Len(sales) < MaxSales
    /\ sales' = Append(sales, [id |-> <<ToString(Len(sales) + 1)>>,
                               date |-> now,
                               paymentMethod |-> method,
                               items |-> <<[productId |-> p, productName |-> ProductName[p]]>>])
    /\ UNCHANGED <<serverVars, registerVars, searchTerm, dateFilter, paymentFilter, now>>

\* time passes
Tick ==
    /\ now < MaxNow
    /\ now' = now + 1
    /\ UNCHANGED <<serverVars, registerVars, sales, searchTerm, dateFilter, paymentFilter>>

\* --------------------------------------- auth.js: POST /api/auth/register, login
UserEmails == {"ana@loja.com", "rui@loja.com"}
SuperAdminEmail == "admin@vitana.com"
\* process.env.SUPER_ADMIN_PASSWORD
SuperAdminPassword == "super-senha"
Passwords == {"senha", "outra", SuperAdminPassword}
Roles == {"admin", "operator"}

\* bcrypt.hash(password) and bcrypt.compare(password, hash)
BcryptHash(password) == <<"bcrypt", password>>
BcryptCompare(password, hash) == hash = BcryptHash(password)

\* rows.find(Test), the first row of a query: a sequence of the first element
\* that satisfies Test, empty when there is none (undefined, null)
Find(rows, Test(_)) ==
    LET found == SelectSeq(rows, Test) IN IF found = << >> THEN << >> ELSE <<Head(found)>>

\* INSERT INTO users: email is UNIQUE, a second row of the same email throws
InsertUserThrows(email, fails) ==
    RunThrows(fails, email) \/ \E i \in DOMAIN dbUsers : dbUsers[i].email = email

Register(email, fails) ==
    IF email = Undefined
    THEN /\ response' = Resp("register", 400, NoPrincipal, Undefined, << >>, "none")
         /\ UNCHANGED <<authVars, nextId>>
    ELSE LET userData == [id |-> Uuid(nextId), email |-> email, status |-> "pending"]
             served == safeQuery(InsertUserThrows(email, fails))
         IN
         /\ nextId <= MaxRecords
         /\ nextId' = nextId + 1
         /\ IF served = "db"
            THEN /\ dbUsers' = Append(dbUsers, userData)
                 /\ UNCHANGED <<dbUserCredentials, fallbackData>>
            ELSE /\ fallbackData' = [fallbackData EXCEPT !.users = Append(@, userData)]
                 /\ UNCHANGED <<dbUsers, dbUserCredentials>>
         /\ response' = Resp("register", 201, NoPrincipal, Undefined,
                             <<[userId |-> userData.id]>>, served)

\* The administrator's decision on a request for access.  Approval sets the
\* status and gives the user the credentials of an admin of business b1 when
\* the user has none; a later rejection sets the status and either keeps the
\* rows of user_credentials or deletes them.
SetStatus(users, i, status) == [users EXCEPT ![i].status = status]

DecideCredentials(credentials, userId, status, password, keeps) ==
    IF status = "approved"
    THEN IF \E k \in DOMAIN credentials : credentials[k].user_id = userId
         THEN credentials
         ELSE Append(credentials,
                     [user_id |-> userId, role |-> "admin", business_id |-> "b1",
                      password_hash |-> BcryptHash(password)])
    ELSE IF keeps THEN credentials
         ELSE SelectSeq(credentials, LAMBDA uc : uc.user_id # userId)

DecideAccess(inDb, i, status, password, keeps) ==
    /\ IF inDb
       THEN /\ i \in DOMAIN dbUsers
            /\ dbUsers[i].status # status
            /\ dbUsers' = SetStatus(dbUsers, i, status)
            /\ dbUserCredentials' =
                   DecideCredentials(dbUserCredentials, dbUsers[i].id, status, password, keeps)
            /\ UNCHANGED fallbackData
       ELSE /\ i \in DOMAIN fallbackData.users
            /\ fallbackData.users[i].status # status
            /\ fallbackData' =
                   [users |-> SetStatus(fallbackData.users, i, status),
                    userCredentials |->
                        DecideCredentials(fallbackData.userCredentials,
                                          fallbackData.users[i].id, status, password, keeps)]
            /\ UNCHANGED <<dbUsers, dbUserCredentials>>
    /\ UNCHANGED <<nextId, response>>

\* SELECT uc.*, u.name, u.business_name, u.status FROM user_credentials uc
\* JOIN users u ON uc.user_id = u.id WHERE u.email = ? AND uc.role = ?
CredentialsFromDb(email, role) ==
    Find(dbUserCredentials,
         LAMBDA uc : /\ uc.role = role
                     /\ \E i \in DOMAIN dbUsers :
                            dbUsers[i].id = uc.user_id /\ dbUsers[i].email = email)

CredentialsFromFallback(email, role) ==
    LET user == Find(fallbackData.users,
                     LAMBDA u : u.email = email /\ u.status = "approved")
    IN IF user = << >> THEN << >>
       ELSE Find(fallbackData.userCredentials,
                 LAMBDA uc : uc.user_id = user[1].id /\ uc.role = role)

Token(id, email, role, businessId) ==
    [id |-> id, email |-> email, role |-> role, businessId |-> businessId]

Login(email, password, role, fails) ==
    /\ IF email = Undefined \/ password = Undefined \/ role = Undefined
       THEN response' = Resp("login", 400, NoPrincipal, Undefined, << >>, "none")
       ELSE IF email = SuperAdminEmail /\ password = SuperAdminPassword
       THEN response' = Resp("login", 200, NoPrincipal, Undefined,
                             <<Token("super-admin", email, "super_admin", Undefined)>>,
                             "none")
       ELSE LET served == safeQuery(RunThrows(fails, email))
                credentials == IF served = "db" THEN CredentialsFromDb(email, role)
                               ELSE CredentialsFromFallback(email, role)
            IN IF credentials = << >>
               THEN response' = Resp("login", 401, NoPrincipal, Undefined, << >>, served)
               ELSE IF ~BcryptCompare(password, credentials[1].password_hash)
               THEN response' = Resp("login", 401, NoPrincipal, Undefined, << >>, served)
               ELSE response' = Resp("login", 200, NoPrincipal, Undefined,
                                     <<Token(credentials[1].user_id, email,
                                             credentials[1].role,
                                             credentials[1].business_id)>>,
                                     served)
    /\ UNCHANGED <<authVars, nextId>>

\* ------------------------------------------- business.js: GET/POST /api/business
\* uuidv4() of a new business: the identifiers the tokens of Principals carry
BusinessIds == {"b1", "b2"}
\* req.body.name: not sent, or a name, standing for its rank in alphabetical order
BusinessNames == {Undef, Num(1), Num(2)}

\* requireRole(roles) of middleware/auth.js lets the request through when the
\* role of the principal is one of roles, and answers 403 otherwise
requireRole(roles, principal) == principal.role \in roles

\* ORDER BY name: the orders the statement may return (rows of equal name in
\* either order)
OrderByName(rows) ==
    { o \in [1..Len(rows) -> Range(rows)] :
        /\ \A r \in Range(rows) : \E i \in 1..Len(rows) : o[i] = r
        /\ \A i, j \in 1..Len(rows) : i < j => o[i].name.v <= o[j].name.v }

\* operation of the list: the results the two statements may return
ListBusinessesFromDb(principal) ==
    IF principal.role = "super_admin"
    THEN OrderByName(dbBusinesses)
    ELSE {SelectSeq(dbBusinesses, LAMBDA b : b.id = principal.businessId)}

\* ListBusinessesFromFallback if it returned the array to every principal
ListBusinessesFromFallbackUnscoped(principal) == fallbackBusinesses

\* fallbackOperation of the list
ListBusinessesFromFallback(principal) ==
    IF principal.role = "super_admin"
    THEN fallbackBusinesses
    ELSE SelectSeq(fallbackBusinesses, LAMBDA b : b.id = principal.businessId)

\* router.get('/'): the X-Business-ID header is not read
GetBusinesses(principal, header, fails) ==
    LET opThrows == IF principal.role = "super_admin"
                    THEN RunThrows(fails, "")
                    ELSE RunThrows(fails, principal.businessId)
        served == safeQuery(opThrows)
    IN
    /\ IF served = "db"
       THEN \E rows \in ListBusinessesFromDb(principal) :
                response' = Resp("listBusinesses", 200, principal, header, rows, served)
       ELSE response' = Resp("listBusinesses", 200, principal, header,
                             ListBusinessesFromFallback(principal), served)
    /\ UNCHANGED <<connVars, storeVars, otherStoreVars, tx, held, nextId, clientVars, calls>>

\* router.post('/')
PostBusiness(principal, header, name, fails) ==
    LET served == safeQuery(RunThrows(fails, ""))
        used == {b.id : b \in Range(dbBusinesses) \cup Range(fallbackBusinesses)}
    IN
    /\ IF ~requireRole({"super_admin"}, principal)
       THEN /\ ~fails
            /\ response' = Resp("createBusiness", 403, principal, header, << >>, "none")
            /\ UNCHANGED <<businessVars, nextId>>
       ELSE IF name = Undef
       THEN /\ ~fails
            /\ response' = Resp("createBusiness", 400, principal, header, << >>, "none")
            /\ UNCHANGED <<businessVars, nextId>>
       ELSE /\ nextId <= MaxRecords
            /\ nextId' = nextId + 1
            /\ \E businessId \in BusinessIds \ used :
                  LET businessData == [id |-> businessId, name |-> name, address |-> "",
                                       phone |-> "", email |-> "", cnpj |-> "",
                                       created_at |-> nextId]
                  IN /\ IF served = "db"
                        THEN /\ dbBusinesses' = Append(dbBusinesses, businessData)
                             /\ UNCHANGED fallbackBusinesses
                        ELSE /\ fallbackBusinesses' = Append(fallbackBusinesses, businessData)
                             /\ UNCHANGED dbBusinesses
                     /\ response' = Resp("createBusiness", 201, principal, header,
                                         <<businessData>>, served)
    /\ UNCHANGED <<connVars, storeVars, dbStockMovements, fallbackStockMovements,
                   dbProducts, fallbackProducts, dbNFCe, fallbackNFCe, authVars, tx, held,
                   clientVars, calls>>

\* ----------------------------------------- reports route: GET /api/reports/sales
\* startDate || '2024-01-01': a date before every record
DefaultStartDate == 0
\* values of the startDate and endDate query parameters (Undef: not sent)
ReportDates == {Undef} \cup {Num(d) : d \in 1..MaxRecords}

\* let fallbackReports = { totalSales: 0, totalRevenue: 0, topProducts: [],
\* salesByPeriod: [] }
fallbackReports ==
    [totalSales |-> 0, totalRevenue |-> Num(0), topProducts |-> << >>, salesByPeriod |-> << >>]

\* FROM sales WHERE business_id = ? AND created_at BETWEEN ? AND ?
SalesBetween(rows, businessId, from, to) ==
    SelectSeq(rows, LAMBDA s : s.business_id = businessId
                               /\ from <= s.created_at /\ s.created_at <= to)

RECURSIVE SumOfTotals(_)
\* SUM(total)
SumOfTotals(rows) ==
    IF rows = << >> THEN Num(0) ELSE JsAdd(Head(rows).total, SumOfTotals(Tail(rows)))

RECURSIVE SumOfQuantities(_)
\* SUM(si.quantity)
SumOfQuantities(rows) ==
    IF rows = << >> THEN 0 ELSE Head(rows).quantity + SumOfQuantities(Tail(rows))

RECURSIVE OrderByTotalSoldDesc(_)
\* ORDER BY total_sold DESC
OrderByTotalSoldDesc(groups) ==
    IF groups = {} THEN << >>
    ELSE LET g == CHOOSE x \in groups : \A y \in groups : y.total_sold <= x.total_sold
         IN <<g>> \o OrderByTotalSoldDesc(groups \ {g})

\* FROM sale_items si JOIN products p ON si.product_id = p.id JOIN sales s ON
\* si.sale_id = s.id WHERE ... GROUP BY p.id, p.name (LIMIT 10 is above the
\* number of products the model creates)
TopProducts(businessId, from, to) ==
    LET inRange == {s.id : s \in {dbSales[i] : i \in
                        {j \in 1..Len(dbSales) :
                            /\ dbSales[j].business_id = businessId
                            /\ from <= dbSales[j].created_at
                            /\ dbSales[j].created_at <= to}}}
        sold(p) == SelectSeq(dbSaleItems,
                             LAMBDA si : si.product_id = p.id /\ si.sale_id \in inRange)
        products == {dbProducts[i] : i \in 1..Len(dbProducts)}
    IN OrderByTotalSoldDesc(
           { [id |-> p.id, name |-> p.name, total_sold |-> SumOfQuantities(sold(p)),
              revenue |-> SumOfTotals(sold(p))] : p \in {q \in products : sold(q) # << >>} })

\* operation of the report: the two queries and the object built from them
ReportFromDb(businessId, from, to) ==
    LET rows == SalesBetween(dbSales, businessId, from, to) IN
    [totalSales |-> Len(rows),
     totalRevenue |-> OrZero(SumOfTotals(rows)),
     topProducts |-> TopProducts(businessId, from, to)]

\* router.get('/sales')
GetSalesReport(principal, header, startDate, endDate, fails) ==
    LET businessId == BusinessIdOf(header, principal)
        from == IF startDate = Undef THEN DefaultStartDate ELSE startDate.v
        to == IF endDate = Undef THEN nextId ELSE endDate.v
        served == safeQuery(RunThrows(fails, businessId))
    IN
    /\ response' = Resp("salesReport", 200, principal, header,
                        <<IF served = "db" THEN ReportFromDb(businessId, from, to)
                          ELSE fallbackReports>>,
                        served)
    /\ UNCHANGED <<connVars, storeVars, otherStoreVars, tx, held, nextId, clientVars, calls>>

\* --------------------------------- stock route: GET/POST /api/stock/movements
MovementProductIds == {Undefined, "p1", Uuid(1)}

PostMovement(principal, header, productId, type, quantity, fails) ==
    LET businessId == BusinessIdOf(header, principal)
        movementData == [id |-> Uuid(nextId), business_id |-> businessId,
                         product_id |-> productId, type |-> type, quantity |-> quantity,
                         reason |-> "", user_id |-> principal.id, created_at |-> nextId]
        served == safeQuery(RunThrows(fails, businessId))
    IN
    /\ IF productId = Undefined \/ quantity = 0
       THEN /\ ~fails
            /\ response' = Resp("createMovement", 400, principal, header, << >>, "none")
            /\ UNCHANGED <<dbStockMovements, fallbackStockMovements, nextId>>
       ELSE /\ nextId <= MaxRecords
            /\ nextId' = nextId + 1
            /\ IF served = "db"
               THEN /\ dbStockMovements' = Append(dbStockMovements, movementData)
                    /\ UNCHANGED fallbackStockMovements
               ELSE /\ fallbackStockMovements' = Append(fallbackStockMovements, movementData)
                    /\ UNCHANGED dbStockMovements
            /\ response' = Resp("createMovement", 201, principal, header, <<movementData>>, served)
    /\ UNCHANGED <<connVars, storeVars, dbProducts, fallbackProducts, dbNFCe, fallbackNFCe,
                   businessVars, authVars, tx, held, clientVars, calls>>

\* FROM stock_movements sm JOIN products p ON sm.product_id = p.id
\* WHERE sm.business_id = ? ORDER BY sm.created_at DESC
ListMovementsFromDb(businessId) ==
    OrderByCreatedAtDesc(
        SelectSeq(dbStockMovements,
                  LAMBDA sm : /\ sm.business_id = businessId
                              /\ \E i \in 1..Len(dbProducts) : dbProducts[i].id = sm.product_id))

ListMovementsFromFallback(businessId) ==
    SelectSeq(fallbackStockMovements, LAMBDA sm : sm.business_id = businessId)

GetMovements(principal, header, fails) ==
    LET businessId == BusinessIdOf(header, principal)
        served == safeQuery(RunThrows(fails, businessId))
    IN
    /\ response' = Resp("listMovements", 200, principal, header,
                        IF served = "db" THEN ListMovementsFromDb(businessId)
                        ELSE ListMovementsFromFallback(businessId),
                        served)
    /\ UNCHANGED <<connVars, storeVars, otherStoreVars, tx, held, nextId, clientVars, calls>>

\* -------------------------------------- products route: GET/POST /api/products
PostProduct(principal, header, valid, fails) ==
    LET businessId == BusinessIdOf(header, principal)
        productData == [id |-> Uuid(nextId), business_id |-> businessId, name |-> "n",
                        price |-> Price["p1"], stock |-> 0, created_at |-> nextId]
        served == safeQuery(RunThrows(fails, businessId))
    IN
    /\ IF ~valid
       THEN /\ ~fails
            /\ response' = Resp("createProduct", 400, principal, header, << >>, "none")
            /\ UNCHANGED <<dbProducts, fallbackProducts, nextId>>
       ELSE /\ nextId <= MaxRecords
            /\ nextId' = nextId + 1
            /\ IF served = "db"
               THEN /\ dbProducts' = Append(dbProducts, productData)
                    /\ UNCHANGED fallbackProducts
               ELSE /\ fallbackProducts' = Append(fallbackProducts, productData)
                    /\ UNCHANGED dbProducts
            /\ response' = Resp("createProduct", 201, principal, header, <<productData>>, served)
    /\ UNCHANGED <<connVars, storeVars, dbStockMovements, fallbackStockMovements,
                   dbNFCe, fallbackNFCe, businessVars, authVars, tx, held, clientVars, calls>>

\* SELECT * FROM products WHERE business_id = ? ORDER BY name (every product
\* created here has the same name, so the order is the insertion order)
ListProductsFromDb(businessId) ==
    SelectSeq(dbProducts, LAMBDA p : p.business_id = businessId)

ListProductsFromFallback(businessId) ==
    SelectSeq(fallbackProducts, LAMBDA p : p.business_id = businessId)

GetProducts(principal, header, fails) ==
    LET businessId == BusinessIdOf(header, principal)
        served == safeQuery(RunThrows(fails, businessId))
    IN
    /\ response' = Resp("listProducts", 200, principal, header,
                        IF served = "db" THEN ListProductsFromDb(businessId)
                        ELSE ListProductsFromFallback(businessId),
                        served)
    /\ UNCHANGED <<connVars, storeVars, otherStoreVars, tx, held, nextId, clientVars, calls>>

\* ---------------------------------------------- nfce route: GET/POST /api/nfce
PostNFCe(principal, header, fails) ==
    LET businessId == BusinessIdOf(header, principal)
        nfceData == [id |-> Uuid(nextId), business_id |-> businessId, sale_id |-> Undefined,
                     status |-> "pending", created_at |-> nextId]
        served == safeQuery(RunThrows(fails, businessId))
    IN
    /\ nextId <= MaxRecords
    /\ nextId' = nextId + 1
    /\ IF served = "db"
       THEN /\ dbNFCe' = Append(dbNFCe, nfceData)
            /\ UNCHANGED fallbackNFCe
       ELSE /\ fallbackNFCe' = Append(fallbackNFCe, nfceData)
            /\ UNCHANGED dbNFCe
    /\ response' = Resp("createNFCe", 201, principal, header, <<nfceData>>, served)
    /\ UNCHANGED <<connVars, storeVars, dbStockMovements, fallbackStockMovements,
                   dbProducts, fallbackProducts, businessVars, authVars, tx, held, clientVars, calls>>

ListNFCeFromDb(businessId) ==
    OrderByCreatedAtDesc(SelectSeq(dbNFCe, LAMBDA n : n.business_id = businessId))

ListNFCeFromFallback(businessId) ==
    SelectSeq(fallbackNFCe, LAMBDA n : n.business_id = businessId)

GetNFCe(principal, header, fails) ==
    LET businessId == BusinessIdOf(header, principal)
        served == safeQuery(RunThrows(fails, businessId))
    IN
    /\ response' = Resp("listNFCe", 200, principal, header,
                        IF served = "db" THEN ListNFCeFromDb(businessId)
                        ELSE ListNFCeFromFallback(businessId),
                        served)
    /\ UNCHANGED <<connVars, storeVars, otherStoreVars, tx, held, nextId, clientVars, calls>>


\* =================================================== EnhancedPDV.tsx: registers
\* The two components that hold a cart and finalize sales.
Registers == {"EnhancedPDV", "SalesManagement"}
PaymentMethods == {"dinheiro", "pix"}
\* useAuth().user of the registers, and the header their requests carry
RegisterPrincipal == [id |-> "u1", role |-> "admin", businessId |-> "b1"]

\* resetStandbyTimer: leave stand-by and start the timeout again
resetStandbyTimer ==
    /\ isStandBy' = FALSE
    /\ standbyTimer' = "armed"

\* handleActivity of the document listeners EnhancedPDV installs (mousedown,
\* keydown, touchstart, scroll), and the effect re-run when cart.length changes
handleActivity(r) ==
    IF r = "EnhancedPDV" THEN resetStandbyTimer ELSE UNCHANGED <<isStandBy, standbyTimer>>

\* an entry of useProducts().products as the register sees it now
ProductOf(p) == [id |-> p, price |-> Price[p], stock |-> stock[p]]

LineIndex(c, productId) ==
    IF \E i \in 1..Len(c) : c[i].productId = productId
    THEN CHOOSE i \in 1..Len(c) : c[i].productId = productId
    ELSE 0

\* AddToCartUpdater if every add appended a line
AddToCartUpdaterAppending(prevCart, product, quantity) ==
    Append(prevCart,
           [productId |-> product.id, quantity |-> quantity, unitPrice |-> product.price,
            total |-> quantity * product.price, product |-> product])

\* AddToCartUpdater if a repeated add replaced the quantity of the line
AddToCartUpdaterReplacing(prevCart, product, quantity) ==
    LET e == LineIndex(prevCart, product.id) IN
    IF e # 0
    THEN IF prevCart[e].quantity + quantity > product.stock
         THEN prevCart
         ELSE [i \in 1..Len(prevCart) |->
                 IF prevCart[i].productId = product.id
                 THEN [prevCart[i] EXCEPT !.quantity = quantity,
                                          !.total = quantity * prevCart[i].unitPrice]
                 ELSE prevCart[i]]
    ELSE Append(prevCart,
                [productId |-> product.id, quantity |-> quantity, unitPrice |-> product.price,
                 total |-> quantity * product.price, product |-> product])

\* the updater addToCart hands to setCart
AddToCartUpdater(prevCart, product, quantity) ==
    LET e == LineIndex(prevCart, product.id) IN
    IF e # 0
    THEN LET newQuantity == prevCart[e].quantity + quantity IN
         IF newQuantity > product.stock
         THEN prevCart
         ELSE [i \in 1..Len(prevCart) |->
                 IF prevCart[i].productId = product.id
                 THEN [prevCart[i] EXCEPT !.quantity = newQuantity,
                                          !.total = newQuantity * prevCart[i].unitPrice]
                 ELSE prevCart[i]]
    ELSE Append(prevCart,
                [productId |-> product.id, quantity |-> quantity, unitPrice |-> product.price,
                 total |-> quantity * product.price, product |-> product])

\* the showNotification calls of addToCart, in the order of the source text
AddToCartNotifications(prevCart, product, quantity) ==
    IF product.stock < quantity THEN <<"warning">>
    ELSE LET e == LineIndex(prevCart, product.id) IN
         IF e # 0 /\ prevCart[e].quantity + quantity > product.stock
         THEN <<"warning", "success">>
         ELSE <<"success">>

\* addToCart without its first stock check
addToCartUnchecked(r, product, quantity) ==
    /\ cart' = [cart EXCEPT ![r] = AddToCartUpdater(cart[r], product, quantity)]
    /\ notifications' = [notifications EXCEPT ![r] = AddToCartNotifications(cart[r], product, quantity)]
    /\ handleActivity(r) /\ UNCHANGED <<serverVars, viewVars, scannerOpen, stock, paymentModalOpen, selectedPaymentMethod, calls,
                   stockMovements>>

addToCart(r, product, quantity) ==
    /\ cart' = IF product.stock < quantity
               THEN cart
               ELSE [cart EXCEPT ![r] = AddToCartUpdater(cart[r], product, quantity)]
    /\ notifications' = [notifications EXCEPT ![r] = AddToCartNotifications(cart[r], product, quantity)]
    /\ handleActivity(r) /\ UNCHANGED <<serverVars, viewVars, scannerOpen, stock, paymentModalOpen, selectedPaymentMethod, calls,
                   stockMovements>>

RemoveLine(prevCart, productId) ==
    SelectSeq(prevCart, LAMBDA item : item.productId # productId)

removeFromCart(r, productId) ==
    /\ cart' = [cart EXCEPT ![r] = RemoveLine(cart[r], productId)]
    /\ notifications' = [notifications EXCEPT ![r] = << >>]
    /\ handleActivity(r) /\ UNCHANGED <<serverVars, viewVars, scannerOpen, stock, paymentModalOpen, selectedPaymentMethod, calls,
                   stockMovements>>

\* the stock limit updateCartItemQuantity compares the new quantity with
QuantityLimit(cartItem) == cartItem.product.stock

\* SetLineQuantity without the recomputation of the line total
SetLineQuantityKeepingTotal(prevCart, productId, newQuantity) ==
    [i \in 1..Len(prevCart) |->
        IF prevCart[i].productId = productId
        THEN [prevCart[i] EXCEPT !.quantity = newQuantity]
        ELSE prevCart[i]]

SetLineQuantity(prevCart, productId, newQuantity) ==
    [i \in 1..Len(prevCart) |->
        IF prevCart[i].productId = productId
        THEN [prevCart[i] EXCEPT !.quantity = newQuantity,
                                 !.total = newQuantity * prevCart[i].unitPrice]
        ELSE prevCart[i]]

\* updateCartItemQuantity if a quantity above the limit were clamped to it
updateCartItemQuantityClamping(r, productId, newQuantity) ==
    LET e == LineIndex(cart[r], productId) IN
    /\ r = "EnhancedPDV"
    /\ IF newQuantity <= 0
       THEN /\ cart' = [cart EXCEPT ![r] = RemoveLine(cart[r], productId)]
            /\ notifications' = [notifications EXCEPT ![r] = << >>]
       ELSE IF e = 0
            THEN /\ notifications' = [notifications EXCEPT ![r] = << >>]
                 /\ UNCHANGED cart
            ELSE IF newQuantity > QuantityLimit(cart[r][e])
                 THEN /\ notifications' = [notifications EXCEPT ![r] = <<"warning">>]
                      /\ cart' = [cart EXCEPT ![r] = SetLineQuantity(cart[r], productId,
                                                                    QuantityLimit(cart[r][e]))]
                 ELSE /\ cart' = [cart EXCEPT ![r] = SetLineQuantity(cart[r], productId, newQuantity)]
                      /\ notifications' = [notifications EXCEPT ![r] = << >>]
    /\ handleActivity(r) /\ UNCHANGED <<serverVars, viewVars, scannerOpen, stock, paymentModalOpen, selectedPaymentMethod, calls,
                   stockMovements>>

\* EnhancedPDV only
updateCartItemQuantity(r, productId, newQuantity) ==
    LET e == LineIndex(cart[r], productId) IN
    /\ r = "EnhancedPDV"
    /\ IF newQuantity <= 0
       THEN /\ cart' = [cart EXCEPT ![r] = RemoveLine(cart[r], productId)]
            /\ notifications' = [notifications EXCEPT ![r] = << >>]
       ELSE IF e = 0
            THEN /\ notifications' = [notifications EXCEPT ![r] = << >>]
                 /\ UNCHANGED cart
            ELSE IF newQuantity > QuantityLimit(cart[r][e])
                 THEN /\ notifications' = [notifications EXCEPT ![r] = <<"warning">>]
                      /\ UNCHANGED cart
                 ELSE /\ cart' = [cart EXCEPT ![r] = SetLineQuantity(cart[r], productId, newQuantity)]
                      /\ notifications' = [notifications EXCEPT ![r] = << >>]
    /\ handleActivity(r) /\ UNCHANGED <<serverVars, viewVars, scannerOpen, stock, paymentModalOpen, selectedPaymentMethod, calls,
                   stockMovements>>

\* EnhancedPDV shows a notification, SalesManagement does not
clearCart(r) ==
    /\ cart' = [cart EXCEPT ![r] = << >>]
    /\ notifications' = [notifications EXCEPT
                            ![r] = IF r = "EnhancedPDV" THEN <<"info">> ELSE << >>]
    /\ handleActivity(r) /\ UNCHANGED <<serverVars, viewVars, scannerOpen, stock, paymentModalOpen, selectedPaymentMethod, calls,
                   stockMovements>>

RECURSIVE SumTotals(_, _)
\* cart.reduce((total, item) => total + item.total, 0)
SumTotals(c, total) ==
    IF c = << >> THEN total ELSE SumTotals(Tail(c), total + Head(c).total)

calculateTotal(r) == SumTotals(cart[r], 0)

\* Finalizar Venda button and F2: both open the modal only on a non-empty cart
OpenPaymentModal ==
    /\ cart["EnhancedPDV"] # << >>
    /\ ~paymentModalOpen
    /\ paymentModalOpen' = TRUE
    /\ handleActivity("EnhancedPDV") /\ UNCHANGED <<serverVars, viewVars, scannerOpen, stock, cart, selectedPaymentMethod, notifications, calls,
                   stockMovements>>

ClosePaymentModal ==
    /\ paymentModalOpen
    /\ paymentModalOpen' = FALSE
    /\ handleActivity("EnhancedPDV") /\ UNCHANGED <<serverVars, viewVars, scannerOpen, stock, cart, selectedPaymentMethod, notifications, calls,
                   stockMovements>>

SelectPaymentMethod(r, method) ==
    /\ selectedPaymentMethod[r] # method
    /\ selectedPaymentMethod' = [selectedPaymentMethod EXCEPT ![r] = method]
    /\ handleActivity(r) /\ UNCHANGED <<serverVars, viewVars, scannerOpen, stock, cart, paymentModalOpen, notifications, calls,
                   stockMovements>>


\* ------------------------------------------- EnhancedPDV: stand-by, shortcuts
Keys == {"F1", "F2", "F3", "F4", "Enter"}

\* StandbyTimeout if the callback did not look at the cart
StandbyTimeoutAnyCart ==
    /\ standbyTimer = "armed"
    /\ standbyTimer' = "none"
    /\ isStandBy' = TRUE
    /\ UNCHANGED <<serverVars, viewVars, scannerOpen, stock, cart, paymentModalOpen,
                   selectedPaymentMethod, notifications, calls, stockMovements>>

\* the callback of window.setTimeout(..., STANDBY_TIMEOUT); its cart is the
\* current one, the effect being re-run whenever cart.length changes
StandbyTimeout ==
    /\ standbyTimer = "armed"
    /\ standbyTimer' = "none"
    /\ isStandBy' = IF Len(cart["EnhancedPDV"]) = 0 THEN TRUE ELSE isStandBy
    /\ UNCHANGED <<serverVars, viewVars, scannerOpen, stock, cart, paymentModalOpen,
                   selectedPaymentMethod, notifications, calls, stockMovements>>

\* handleKeyPress without its first line
handleKeyPressUnblocked(key) ==
    /\ standbyTimer' = "armed"
    /\ isStandBy' = (key = "F3")
    /\ cart' = IF key = "F1" THEN [cart EXCEPT !["EnhancedPDV"] = << >>] ELSE cart
    /\ notifications' = IF key = "F1"
                        THEN [notifications EXCEPT !["EnhancedPDV"] = <<"info">>]
                        ELSE notifications
    /\ paymentModalOpen' = IF key = "F2" /\ Len(cart["EnhancedPDV"]) > 0
                           THEN TRUE ELSE paymentModalOpen
    /\ scannerOpen' = IF key = "F4" THEN TRUE ELSE scannerOpen
    /\ UNCHANGED <<serverVars, viewVars, stock, selectedPaymentMethod, calls, stockMovements>>

\* A keydown on the document: handleActivity (installed first) resets the
\* stand-by timer, then handleKeyPress runs with the state of the last
\* render; the state updates of both are applied together.
handleKeyPress(key) ==
    LET returns == isStandBy \/ paymentModalOpen \/ scannerOpen IN
    /\ standbyTimer' = "armed"
    /\ isStandBy' = (~returns /\ key = "F3")
    /\ cart' = IF ~returns /\ key = "F1" THEN [cart EXCEPT !["EnhancedPDV"] = << >>] ELSE cart
    /\ notifications' = IF ~returns /\ key = "F1"
                        THEN [notifications EXCEPT !["EnhancedPDV"] = <<"info">>]
                        ELSE notifications
    /\ paymentModalOpen' = IF ~returns /\ key = "F2" /\ Len(cart["EnhancedPDV"]) > 0
                           THEN TRUE ELSE paymentModalOpen
    /\ scannerOpen' = IF ~returns /\ key = "F4" THEN TRUE ELSE scannerOpen
    /\ UNCHANGED <<serverVars, viewVars, stock, selectedPaymentMethod, calls, stockMovements>>

\* the Stand By button: mousedown resets the timer, the click sets isStandBy
StandByButton ==
    /\ ~isStandBy /\ ~paymentModalOpen
    /\ isStandBy' = TRUE
    /\ standbyTimer' = "armed"
    /\ UNCHANGED <<serverVars, viewVars, scannerOpen, stock, cart, paymentModalOpen,
                   selectedPaymentMethod, notifications, calls, stockMovements>>

\* a click on the stand-by screen
activateFromStandby ==
    /\ isStandBy
    /\ resetStandbyTimer
    /\ UNCHANGED <<serverVars, viewVars, scannerOpen, stock, cart, paymentModalOpen,
                   selectedPaymentMethod, notifications, calls, stockMovements>>

\* the Abrir Scanner Visual button
OpenScanner ==
    /\ ~isStandBy /\ ~paymentModalOpen /\ ~scannerOpen
    /\ scannerOpen' = TRUE
    /\ resetStandbyTimer
    /\ UNCHANGED <<serverVars, viewVars, stock, cart, paymentModalOpen,
                   selectedPaymentMethod, notifications, calls, stockMovements>>

\* onClose of the scanner
CloseScanner ==
    /\ scannerOpen
    /\ scannerOpen' = FALSE
    /\ resetStandbyTimer
    /\ UNCHANGED <<serverVars, viewVars, stock, cart, paymentModalOpen,
                   selectedPaymentMethod, notifications, calls, stockMovements>>

\* ------------------------------------------------------------- finalizeSale
\* the items of the addSale payload (lines 290-296): the lines carry
\* unitPrice and total, and no price field
SalePayloadItems(c) ==
    [i \in 1..Len(c) |-> ClientLine(c[i].productId, c[i].quantity, c[i].unitPrice)]

\* newStock if it were computed from the current stock of the product
NewStockFromCurrent(item) == stock[item.productId] - item.quantity

\* const newStock = item.product.stock - item.quantity
NewStock(item) == item.product.stock - item.quantity

\* useProducts().updateStock(productId, newStock)
updateStock(st, productId, newStock) == [st EXCEPT ![productId] = newStock]

\* useStockMovements().addMovement({productId, type, quantity, reason})
addMovement(log, item, method) ==
    Append(log, [productId |-> item.productId, type |-> "saida",
                 quantity |-> item.quantity, reason |-> <<"Venda", method>>])

FreeSlot(cs) ==
    IF \E k \in 1..MaxCalls : cs[k].pc = "idle"
    THEN CHOOSE k \in 1..MaxCalls : cs[k].pc = "idle" /\ \A j \in 1..(k - 1) : cs[j].pc # "idle"
    ELSE 0

\* finalizeSale without its guard on the empty cart.
finalizeSaleUnguarded(r, reaches, connects) ==
    LET k == FreeSlot(calls)
        call == [reg |-> r, cart |-> cart[r], paymentMethod |-> selectedPaymentMethod[r],
                 pc |-> "sale", i |-> 1, saleId |-> "", stockBefore |-> stock]
    IN
    /\ k # 0
    /\ IF ~reaches
       THEN /\ connects
            /\ notifications' = [notifications EXCEPT ![r] = <<"error">>]
            /\ UNCHANGED <<serverVars, viewVars, standbyVars, stock, cart, paymentModalOpen,
                           selectedPaymentMethod, stockMovements, calls>>
       ELSE /\ PostSale(RegisterPrincipal, Undefined,
                        [hasItems |-> TRUE, items |-> SalePayloadItems(cart[r]),
                         discount |-> Undef],
                        selectedPaymentMethod[r], k, [calls EXCEPT ![k] = call], connects)
            /\ UNCHANGED <<connVars, otherStoreVars, clientVars>>

\* finalizeSale if the stock loop ran although addSale rejected.
finalizeSaleIgnoringFailure(r, reaches, connects) ==
    IF cart[r] = << >>
    THEN reaches /\ connects /\ UNCHANGED vars
    ELSE LET k == FreeSlot(calls)
             call == [reg |-> r, cart |-> cart[r], paymentMethod |-> selectedPaymentMethod[r],
                      pc |-> "sale", i |-> 1, saleId |-> "", stockBefore |-> stock]
         IN
         /\ k # 0
         /\ IF ~reaches
            THEN /\ connects
                 /\ calls' = [calls EXCEPT ![k] = [call EXCEPT !.pc = "stock"]]
                 /\ UNCHANGED <<serverVars, clientVars>>
            ELSE /\ PostSale(RegisterPrincipal, Undefined,
                             [hasItems |-> TRUE, items |-> SalePayloadItems(cart[r]),
                              discount |-> Undef],
                             selectedPaymentMethod[r], k, [calls EXCEPT ![k] = call], connects)
                 /\ UNCHANGED <<connVars, otherStoreVars, clientVars>>

\* finalizeSale up to its first await.  reaches: the request of addSale
\* reaches the server (otherwise addSale rejects, the catch block notifies
\* and the invocation ends); connects: getConnection of the transaction
\* succeeds.  stockBefore records the stock at the time of the invocation.
finalizeSale(r, reaches, connects) ==
    IF cart[r] = << >>
    THEN reaches /\ connects /\ UNCHANGED vars
    ELSE LET k == FreeSlot(calls)
             call == [reg |-> r, cart |-> cart[r], paymentMethod |-> selectedPaymentMethod[r],
                      pc |-> "sale", i |-> 1, saleId |-> "", stockBefore |-> stock]
         IN
         /\ k # 0
         /\ IF ~reaches
            THEN /\ connects
                 /\ notifications' = [notifications EXCEPT ![r] = <<"error">>]
                 /\ UNCHANGED <<serverVars, viewVars, standbyVars, stock, cart, paymentModalOpen,
                                selectedPaymentMethod, stockMovements, calls>>
            ELSE /\ PostSale(RegisterPrincipal, Undefined,
                             [hasItems |-> TRUE, items |-> SalePayloadItems(cart[r]),
                              discount |-> Undef],
                             selectedPaymentMethod[r], k, [calls EXCEPT ![k] = call], connects)
                 /\ UNCHANGED <<connVars, otherStoreVars, clientVars>>

\* The loop of finalizeSale resumed for line i of the captured cart:
\* updateStock resolves (ok) or rejects, then the rest of the body up to the
\* next await or to the end of the invocation.
finalizeStockStep(k, ok) ==
    /\ calls[k].pc = "stock"
    /\ LET c == calls[k]
           r == c.reg
           item == c.cart[c.i]
       IN
       IF ~ok
       THEN /\ calls' = [calls EXCEPT ![k] = NoCall]
            /\ notifications' = [notifications EXCEPT ![r] = <<"error">>]
            /\ UNCHANGED <<stock, stockMovements, cart, paymentModalOpen>>
       ELSE /\ stock' = updateStock(stock, item.productId, NewStock(item))
            /\ stockMovements' = addMovement(stockMovements, item, c.paymentMethod)
            /\ IF c.i < Len(c.cart)
               THEN /\ calls' = [calls EXCEPT ![k].i = c.i + 1]
                    /\ UNCHANGED <<notifications, cart, paymentModalOpen>>
               ELSE /\ calls' = [calls EXCEPT ![k] = NoCall]
                    /\ notifications' = [notifications EXCEPT ![r] = <<"sale">>]
                    /\ cart' = [cart EXCEPT ![r] = << >>]
                    /\ paymentModalOpen' = IF r = "EnhancedPDV" THEN FALSE
                                           ELSE paymentModalOpen
    /\ IF ok /\ calls[k].i = Len(calls[k].cart) /\ cart[calls[k].reg] # << >>
       THEN handleActivity(calls[k].reg)
       ELSE UNCHANGED <<isStandBy, standbyTimer>>
    /\ UNCHANGED <<serverVars, viewVars, scannerOpen, selectedPaymentMethod>>

\* The stock of a product set outside the registers: a restock, an
\* adjustment, a sale at another terminal.
StockChange(p, s) ==
    /\ stock[p] # s
    /\ stock' = [stock EXCEPT ![p] = s]
    /\ UNCHANGED <<serverVars, viewVars, standbyVars, cart, paymentModalOpen, selectedPaymentMethod, notifications,
                   calls, stockMovements>>

\* ------------------------------------------------------------ specification
NoResponse == Resp("none", 0, NoPrincipal, Undefined, << >>, "none")

Init ==
    /\ pool = NULL
    /\ isConnected = FALSE
    /\ dbSales = << >>
    /\ dbSaleItems = << >>
    /\ fallbackSales = << >>
    /\ fallbackSaleItems = << >>
    /\ dbStockMovements = << >>
    /\ fallbackStockMovements = << >>
    /\ dbProducts = << >>
    /\ fallbackProducts = << >>
    /\ dbNFCe = << >>
    /\ fallbackNFCe = << >>
    /\ tx = << >>
    /\ nextId = 1
    /\ response = NoResponse
    /\ stock = [p \in Products |-> MaxStock]
    /\ cart = [r \in Registers |-> << >>]
    /\ paymentModalOpen = FALSE
    /\ selectedPaymentMethod = [r \in Registers |-> "dinheiro"]
    /\ notifications = [r \in Registers |-> << >>]
    /\ calls = [k \in 1..MaxCalls |-> NoCall]
    /\ stockMovements = << >>
    /\ dbBusinesses = << >>
    /\ fallbackBusinesses = << >>
    /\ sales = << >>
    /\ searchTerm = << >>
    /\ dateFilter = "today"
    /\ paymentFilter = "all"
    /\ now = 0
    /\ isStandBy = FALSE
    /\ scannerOpen = FALSE
    /\ standbyTimer = "armed"
    /\ dbUsers = << >>
    /\ dbUserCredentials = << >>
    /\ fallbackData = [users |-> << >>, userCredentials |-> << >>]
    /\ held = 0

Connect ==
    /\ \E configured \in BOOLEAN, reachable \in BOOLEAN : connect(configured, reachable)
    /\ UNCHANGED <<storeVars, otherStoreVars, tx, held, nextId, response, clientVars, calls>>

Close ==
    /\ close
    /\ UNCHANGED <<storeVars, otherStoreVars, tx, held, nextId, response, clientVars, calls>>

ApiPostSale ==
    \E principal \in TenantPrincipals, header \in Headers, body \in ApiBodies,
       connects \in BOOLEAN :
        /\ PostSale(principal, header, body, Undefined, 0, calls, connects)
        /\ UNCHANGED <<connVars, otherStoreVars, clientVars>>

Transaction == \E fails \in BOOLEAN : TransactionStep(fails)

ApiGetSales ==
    \E principal \in TenantPrincipals, header \in Headers, fails \in BOOLEAN :
        GetSales(principal, header, fails)

ApiGetSalesReport ==
    \E principal \in TenantPrincipals, header \in Headers, startDate \in ReportDates,
       endDate \in ReportDates, fails \in BOOLEAN :
        GetSalesReport(principal, header, startDate, endDate, fails)

SetSearchTerm == \E term \in SearchTerms : setSearchTerm(term)

SetDateFilter == \E filter \in DateFilters : setDateFilter(filter)

SetPaymentFilter == \E filter \in PaymentFilters : setPaymentFilter(filter)

SaleAppears == \E p \in Products, method \in {"dinheiro", "pix"} : SaleListed(p, method)

ApiPostBusiness ==
    \E principal \in Principals, header \in Headers, name \in BusinessNames,
       fails \in BOOLEAN :
        PostBusiness(principal, header, name, fails)

ApiGetBusinesses ==
    \E principal \in Principals, header \in Headers, fails \in BOOLEAN :
        GetBusinesses(principal, header, fails)

AddToCart(r, ps) ==
    \E p \in ps, quantity \in 1..MaxAddQty : addToCart(r, ProductOf(p), quantity)

\* the + and - buttons of a cart line
UpdateCartItemQuantity(r) ==
    \E i \in 1..Len(cart[r]), d \in {-1, 1} :
        updateCartItemQuantity(r, cart[r][i].productId, cart[r][i].quantity + d)

\* the remove button of a cart line
RemoveFromCart(r) ==
    \E i \in 1..Len(cart[r]) : removeFromCart(r, cart[r][i].productId)

ClearCart(r) == clearCart(r)

KeyPress == \E key \in Keys : handleKeyPress(key)

\* the register screen is rendered, and no modal covers it
ScreenShown == ~isStandBy /\ ~paymentModalOpen

ScreenAddToCart == ScreenShown /\ AddToCart("EnhancedPDV", Products)

\* Limpar Carrinho is disabled on an empty cart
ScreenClearCart == ScreenShown /\ Len(cart["EnhancedPDV"]) > 0 /\ ClearCart("EnhancedPDV")

ScreenOpenPaymentModal == ScreenShown /\ OpenPaymentModal

\* Confirmar of the payment modal (EnhancedPDV), Finalizar Venda (SalesManagement)
\* about a cart whose sale would be at most the limit-th of the session
FinalizeSale(r, limit) ==
    /\ r = "EnhancedPDV" => paymentModalOpen
    /\ cart[r] # << >> => nextId <= limit
    /\ \E reaches \in BOOLEAN, connects \in BOOLEAN : finalizeSale(r, reaches, connects)

FinalizeStockStep == \E k \in 1..MaxCalls, ok \in BOOLEAN : finalizeStockStep(k, ok)

RestockOrOtherSale(ps) == \E p \in ps, s \in 0..MaxStock : StockChange(p, s)

\* The list and create requests of the four tenant-scoped resources, each
\* create with one fixed valid body.
TenantCreate ==
    \E principal \in TenantPrincipals, header \in Headers, fails \in BOOLEAN :
        \/ /\ PostSale(principal, header,
                       [hasItems |-> TRUE, items |-> <<ServerLine("p1", 1)>>, discount |-> Undef],
                       Undefined, 0, calls, ~fails)
           /\ UNCHANGED <<connVars, otherStoreVars, clientVars>>
        \/ \E productId \in MovementProductIds, quantity \in {0, 1} :
               PostMovement(principal, header, productId, "in", quantity, fails)
        \/ \E valid \in BOOLEAN : PostProduct(principal, header, valid, fails)
        \/ PostNFCe(principal, header, fails)

TenantList ==
    \E principal \in TenantPrincipals, header \in Headers, fails \in BOOLEAN :
        \/ GetSales(principal, header, fails)
        \/ GetMovements(principal, header, fails)
        \/ GetProducts(principal, header, fails)
        \/ GetNFCe(principal, header, fails)

\* The point-of-sale register through the checkouts of a session: products
\* scanned into the cart, the stock of p1 changing meanwhile, finalizeSale
\* and the create-sale request it sends.
Next ==
    \/ Connect
    \/ Close
    \/ Transaction
    \/ AddToCart("EnhancedPDV", Products)
    \/ OpenPaymentModal
    \/ ClosePaymentModal
    \/ FinalizeSale("EnhancedPDV", MaxCheckouts)
    \/ FinalizeStockStep
    \/ RestockOrOtherSale({"p1"})

Spec == Init /\ [][Next]_vars

\* The cart of the point-of-sale register while the stock of the products
\* changes, without finalization.
NextCart ==
    \/ AddToCart("EnhancedPDV", Products)
    \/ UpdateCartItemQuantity("EnhancedPDV")
    \/ RemoveFromCart("EnhancedPDV")
    \/ ClearCart("EnhancedPDV")
    \/ OpenPaymentModal
    \/ ClosePaymentModal
    \/ RestockOrOtherSale(Products)

SpecCart == Init /\ [][NextCart]_vars

\* The carts of both registers (EnhancedPDV and SalesManagement) while the
\* stock of p1 changes.
NextCarts ==
    \/ \E r \in Registers : AddToCart(r, Products)
    \/ \E r \in Registers : RemoveFromCart(r)
    \/ \E r \in Registers : ClearCart(r)
    \/ RestockOrOtherSale({"p1"})

SpecCarts == Init /\ [][NextCarts]_vars

\* Checkouts of one product overlapping in time: Confirmar pressed again
\* while an invocation of finalizeSale is still awaiting.
NextRace ==
    \/ AddToCart("EnhancedPDV", {"p1"})
    \/ UpdateCartItemQuantity("EnhancedPDV")
    \/ ClearCart("EnhancedPDV")
    \/ OpenPaymentModal
    \/ ClosePaymentModal
    \/ FinalizeSale("EnhancedPDV", MaxRecords)
    \/ FinalizeStockStep

SpecRace == Init /\ [][NextRace]_vars

\* The sales API called directly.
NextApi ==
    \/ Connect
    \/ Close
    \/ ApiPostSale
    \/ Transaction
    \/ ApiGetSales

SpecApi == Init /\ [][NextApi]_vars

\* The tenant-scoped list and create requests of every resource.
NextTenancy ==
    \/ Connect
    \/ Close
    \/ Transaction
    \/ TenantCreate
    \/ TenantList

SpecTenancy == Init /\ [][NextTenancy]_vars

\* Sales created through the API and the sales report.
NextReports ==
    \/ Connect
    \/ Close
    \/ ApiPostSale
    \/ Transaction
    \/ ApiGetSalesReport

SpecReports == Init /\ [][NextReports]_vars

\* Businesses created and listed by the principals.
NextBusiness ==
    \/ Connect
    \/ Close
    \/ ApiPostBusiness
    \/ ApiGetBusinesses

SpecBusiness == Init /\ [][NextBusiness]_vars

\* The sales list of SalesManagement under its filters, as time passes.
NextView ==
    \/ SetSearchTerm
    \/ SetDateFilter
    \/ SetPaymentFilter
    \/ ClearFilters
    \/ SaleAppears
    \/ Tick

SpecView == Init /\ [][NextView]_vars

\* The screen of EnhancedPDV: cart, payment modal, scanner, stand-by and the
\* F1-F4 shortcuts.
NextStandby ==
    \/ KeyPress
    \/ StandbyTimeout
    \/ StandByButton
    \/ activateFromStandby
    \/ OpenScanner
    \/ CloseScanner
    \/ ScreenAddToCart
    \/ ScreenClearCart
    \/ ScreenOpenPaymentModal
    \/ ClosePaymentModal

SpecStandby == Init /\ [][NextStandby]_vars

\* ================================================================ properties
IsPrefix(a, b) == Len(a) <= Len(b) /\ SubSeq(b, 1, Len(a)) = a

\* ------------------------------------------------- the register and login routes
ApiRegister ==
    /\ \E email \in UserEmails \cup {Undefined}, fails \in BOOLEAN : Register(email, fails)
    /\ UNCHANGED <<connVars, storeVars, dbStockMovements, fallbackStockMovements,
                   dbProducts, fallbackProducts, dbNFCe, fallbackNFCe, businessVars,
                   tx, held, clientVars, calls>>

AdminDecideAccess ==
    /\ \E inDb \in BOOLEAN, i \in 1..MaxRecords, status \in {"approved", "rejected"},
          password \in {"senha"}, keeps \in BOOLEAN :
            DecideAccess(inDb, i, status, password, keeps)
    /\ UNCHANGED <<connVars, storeVars, dbStockMovements, fallbackStockMovements,
                   dbProducts, fallbackProducts, dbNFCe, fallbackNFCe, businessVars,
                   tx, held, clientVars, calls>>

ApiLogin ==
    /\ \E email \in UserEmails \cup {SuperAdminEmail, Undefined}, password \in Passwords,
          role \in Roles, fails \in BOOLEAN :
            Login(email, password, role, fails)
    /\ UNCHANGED <<connVars, storeVars, dbStockMovements, fallbackStockMovements,
                   dbProducts, fallbackProducts, dbNFCe, fallbackNFCe, businessVars,
                   tx, held, clientVars, calls>>

NextAuth ==
    \/ Connect
    \/ Close
    \/ ApiRegister
    \/ AdminDecideAccess
    \/ ApiLogin

SpecAuth == Init /\ [][NextAuth]_vars

\* ------------------------------------------------------------------------ C1
\* the step in which the create-sale transaction throws: while it is in
\* flight, or at once (no connection, getConnection rejects)
TransactionThrows ==
    \/ tx # << >> /\ tx' = << >> /\ response'.served # "db"
    \/ tx = << >> /\ tx' = << >> /\ pool # NULL /\ nextId' # nextId

\* the create-sale request the step answers
ThrownSale == IF tx # << >> THEN tx[1].saleData ELSE response'.body[1]
ThrownItems ==
    IF tx # << >> THEN [i \in 1..Len(tx[1].items) |-> tx[1].items[i].productId]
    ELSE [i \in 1..(Len(fallbackSaleItems') - Len(fallbackSaleItems)) |->
             fallbackSaleItems'[Len(fallbackSaleItems) + i].product_id]

\* C1 as stated: when a pool exists and the create-sale transaction throws,
\* the request signals an error and no sale or sale item of the request is
\* visible in the persistent store or in the fallback store.
C1_RollbackSignalsError ==
    [][TransactionThrows =>
          /\ response'.status >= 400
          /\ dbSales' = dbSales /\ dbSaleItems' = dbSaleItems
          /\ fallbackSales' = fallbackSales /\ fallbackSaleItems' = fallbackSaleItems]_vars

\* C1 (amended): when a pool exists and the create-sale transaction throws,
\* the rollback leaves no sale and no sale item of the request in the
\* persistent store, but the request answers 201 with the sale, and the sale
\* and one sale item per line are appended to the fallback store.
C1_RollbackFallsBack ==
    [][TransactionThrows =>
          /\ dbSales' = dbSales /\ dbSaleItems' = dbSaleItems
          /\ \A i \in 1..Len(dbSales) : dbSales[i].id # ThrownSale.id
          /\ \A i \in 1..Len(dbSaleItems) : dbSaleItems[i].sale_id # ThrownSale.id
          /\ response'.op = "createSale" /\ response'.status = 201
          /\ response'.body = <<ThrownSale>>
          /\ response'.served = "fallback after error"
          /\ fallbackSales' = Append(fallbackSales, ThrownSale)
          /\ IsPrefix(fallbackSaleItems, fallbackSaleItems')
          /\ Len(fallbackSaleItems') = Len(fallbackSaleItems) + Len(ThrownItems)
          /\ Len(ThrownItems) >= 1
          /\ \A i \in 1..Len(ThrownItems) :
                LET si == fallbackSaleItems'[Len(fallbackSaleItems) + i] IN
                si.sale_id = ThrownSale.id /\ si.product_id = ThrownItems[i]]_vars

\* a transaction that threw after some of its statements had run
C1_Witness ==
    /\ pool # NULL /\ isConnected /\ tx = << >>
    /\ response.op = "createSale" /\ response.served = "fallback after error"
    /\ dbSales = << >> /\ dbSaleItems = << >>
    /\ Len(fallbackSales) = 1 /\ Len(fallbackSaleItems) = 2

\* ------------------------------------------------------------------------ C2
C2_CreateWithoutPool ==
    [][pool = NULL /\ nextId' # nextId =>
          /\ response'.op = "createSale" /\ response'.status = 201
          /\ response'.served = "fallback"
          /\ fallbackSales' = Append(fallbackSales, response'.body[1])]_vars

C2_ListWithoutPool ==
    [](response.op = "listSales" /\ response.served = "fallback" =>
          LET businessId == BusinessIdOf(response.header, response.principal) IN
          \A i \in 1..Len(fallbackSales) :
              fallbackSales[i].business_id = businessId =>
                  \E j \in 1..Len(response.body) : response.body[j].sale = fallbackSales[i])

\* C2: with no pool at call time, a create-sale request with a non-empty item
\* list answers 201 with the created sale, and a later list-sales request of
\* the same tenant, made while there is still no pool, includes that sale.
C2_FallbackCreateThenList == C2_CreateWithoutPool /\ C2_ListWithoutPool

C2_Witness ==
    /\ pool = NULL
    /\ response.op = "listSales" /\ response.served = "fallback"
    /\ Len(response.body) >= 1
    /\ Len(fallbackSales) = MaxRecords

\* ------------------------------------------------------------------------ C3
ListOps == {"listSales", "listMovements", "listProducts", "listNFCe"}
TenantOf(op, rec) == IF op = "listSales" THEN rec.sale.business_id ELSE rec.business_id

\* C3 as stated: every record a list request returns to a principal that is
\* not super-admin carries the principal's own business identifier, whatever
\* headers the request carries.
C3_TenantIsolation ==
    response.op \in ListOps /\ response.principal.role # "super_admin" =>
        \A i \in 1..Len(response.body) :
            TenantOf(response.op, response.body[i]) = response.principal.businessId

\* ------------------------------------------------------------------------ C9
\* C9 as stated: once a pool exists, no create is written to the fallback
\* store any more.
C9_NoFallbackWriteOncePool ==
    [][pool # NULL => fallbackSales' = fallbackSales /\ fallbackSaleItems' = fallbackSaleItems]_vars

\* C9 (amended): the store is chosen anew on every create: with a pool the
\* create is attempted on the persistent store and is written there, and not
\* to the fallback store, when that attempt succeeds; it is written to the
\* fallback store when there is no pool or the attempt throws.  Records
\* written to the fallback store earlier stay there, unmigrated and unchanged.
C9_StoreChosenPerCreate ==
    [][/\ IsPrefix(fallbackSales, fallbackSales')
       /\ IsPrefix(fallbackSaleItems, fallbackSaleItems')
       /\ IsPrefix(dbSales, dbSales')
       /\ Range(dbSales') \cap Range(fallbackSales') = {}
       /\ dbSales' # dbSales =>
             /\ pool # NULL
             /\ fallbackSales' = fallbackSales /\ fallbackSaleItems' = fallbackSaleItems
             /\ response'.served = "db"
       /\ fallbackSales' # fallbackSales =>
             /\ dbSales' = dbSales /\ dbSaleItems' = dbSaleItems
             /\ response'.served = IF pool = NULL THEN "fallback" ELSE "fallback after error"]_vars

\* a sale written to the persistent store after an earlier one went to the
\* fallback store, which still holds it
C9_Witness ==
    /\ Len(fallbackSales) = 1 /\ Len(dbSales) = 1
    /\ dbSales[1].created_at > fallbackSales[1].created_at
    /\ response.op = "createSale" /\ response.served = "db"

\* ------------------------------------------------------------------------ C4
\* the finalizeSale invocation whose stock loop wrote in this step
StockWriteBy(k) ==
    /\ calls[k].pc = "stock" /\ calls'[k] # calls[k]
    /\ stockMovements' # stockMovements
WrittenLine(k) == calls[k].cart[calls[k].i]

\* C4 as stated (stock part): the stock of the product of every line is, after
\* finalizeSale has written it, lower than its value immediately before
\* finalizeSale by exactly the quantity of the line.
C4_StockLoweredByQuantity ==
    [][\A k \in 1..MaxCalls :
          StockWriteBy(k) =>
              stock'[WrittenLine(k).productId] =
                  calls[k].stockBefore[WrittenLine(k).productId] - WrittenLine(k).quantity]_vars

\* ------------------------------------------------------------------------ C5
\* C5 as stated, for the line a call adds or whose quantity it raises: after
\* the call the quantity of the line is not greater than the current stock of
\* its product.
C5_QuantityWithinCurrentStock ==
    [][\A r \in Registers : \A i \in 1..Len(cart'[r]) :
          LET line == cart'[r][i]
              e == LineIndex(cart[r], line.productId)
          IN (e = 0 \/ cart[r][e].quantity < line.quantity) =>
                 line.quantity <= stock[line.productId]]_vars

\* ------------------------------------------------------------------------ C6
RECURSIVE SumQuantityTimesPrice(_)
SumQuantityTimesPrice(c) ==
    IF c = << >> THEN 0
    ELSE Head(c).quantity * Head(c).unitPrice + SumQuantityTimesPrice(Tail(c))

\* C6: after any sequence of add, setQuantity, remove and clear calls,
\* calculateTotal() is the sum over the cart lines of quantity times the
\* unit price taken when the line was added, 0 for an empty cart; it is a
\* function of the cart alone.
C6_TotalIsSumOfLines ==
    \A r \in Registers :
        /\ calculateTotal(r) = SumQuantityTimesPrice(cart[r])
        /\ \A i \in 1..Len(cart[r]) : cart[r][i].unitPrice = Price[cart[r][i].productId]
        /\ cart[r] = << >> => calculateTotal(r) = 0

\* two lines, one of them with a quantity set above 1
C6_Witness ==
    LET c == cart["EnhancedPDV"] IN
    /\ Len(c) = 2
    /\ c[1].productId = "p1" /\ c[1].quantity = 2
    /\ c[2].productId = "p2" /\ c[2].quantity = 1
    /\ calculateTotal("EnhancedPDV") = 2020

\* ------------------------------------------------------------------------ C7
\* C7 as stated: the stock of a product is never negative, whatever the cart
\* operations, stock changes and finalizeSale calls before.
C7_StockNeverNegative == \A p \in Products : stock[p] >= 0

\* ------------------------------------------------------------------------ C8
\* C8: the stock loop of finalizeSale writes the stock the line recorded when
\* it was added minus the quantity of the line, whatever the stock is at the
\* time of the write and whatever other invocation is awaiting: of two
\* invocations that recorded the same stock s, the one that writes last
\* leaves s minus its own quantity.
C8_LastWriterWins ==
    [][\A k \in 1..MaxCalls :
          StockWriteBy(k) =>
              /\ stock' = [stock EXCEPT ![WrittenLine(k).productId] =
                              WrittenLine(k).product.stock - WrittenLine(k).quantity]
              /\ \A j \in 1..MaxCalls : j # k => calls'[j] = calls[j]]_vars

\* two sales of p1 recorded, both stock writes done from the same recorded
\* stock: the stock holds the last writer's value, not s - q1 - q2
C8_Witness ==
    /\ Len(fallbackSales) = 2 /\ Len(stockMovements) = 2
    /\ \A k \in 1..MaxCalls : calls[k].pc = "idle"
    /\ stock["p1"] = MaxStock - stockMovements[2].quantity
    /\ stock["p1"] # MaxStock - stockMovements[1].quantity - stockMovements[2].quantity

\* ----------------------------------------------------------------------- C10
SaleRecorded(id) ==
    \/ \E i \in 1..Len(dbSales) : dbSales[i].id = id
    \/ \E i \in 1..Len(fallbackSales) : fallbackSales[i].id = id

\* C10: finalizeSale issues no stock update and no stock movement unless its
\* sale creation has succeeded; when the sale creation fails, no sale is
\* recorded and neither stock nor movements change; when it has succeeded,
\* the sale stays recorded even if a later stock update fails part-way
\* through the lines.
C10_SaleBeforeStock ==
    [][/\ stockMovements' # stockMovements =>
             \E k \in 1..MaxCalls : StockWriteBy(k) /\ SaleRecorded(calls[k].saleId)
       /\ \A k \in 1..MaxCalls : calls[k].pc = "stock" => SaleRecorded(calls[k].saleId)
       /\ (notifications' # notifications /\ notifications'["EnhancedPDV"] = <<"error">>
           /\ \A k \in 1..MaxCalls : calls[k].pc = "stock" => calls'[k] = calls[k]) =>
             UNCHANGED <<storeVars, stock, stockMovements, cart>>
       /\ \A k \in 1..MaxCalls :
             calls[k].pc = "stock" /\ calls'[k].pc = "idle" =>
                 /\ SaleRecorded(calls[k].saleId)
                 /\ UNCHANGED storeVars]_vars

\* the second stock update of a two-line sale failed: the sale and the first
\* movement stay
C10_Witness ==
    /\ notifications["EnhancedPDV"] = <<"error">>
    /\ \A k \in 1..MaxCalls : calls[k].pc = "idle"
    /\ Len(dbSales) + Len(fallbackSales) = 1
    /\ Len(dbSaleItems) + Len(fallbackSaleItems) = 2
    /\ Len(stockMovements) = 1
    /\ Len(cart["EnhancedPDV"]) = 2

\* ----------------------------------------------------------------------- C11
\* C11: a create-sale request whose item list is missing or empty is answered
\* 400 before any write: the step that answers 400 changes neither store,
\* starts no transaction and hands out no id, and every create the handler
\* accepts carries at least one line.
C11_EmptyItemsRejected ==
    [][/\ (response' # response /\ response'.op = "createSale" /\ response'.status = 400) =>
             /\ response'.body = << >>
             /\ UNCHANGED <<storeVars, otherStoreVars, tx, nextId>>
       /\ nextId' # nextId =>
             IF tx' # << >> THEN Len(tx'[1].items) >= 1
             ELSE Len(fallbackSaleItems') > Len(fallbackSaleItems)]_vars

\* a request answered 400 after a sale had been stored: the stores keep
\* exactly that sale
C11_Witness ==
    /\ response.op = "createSale" /\ response.status = 400
    /\ Len(fallbackSales) + Len(dbSales) = 1
    /\ nextId = 2 /\ tx = << >>

\* ----------------------------------------------------------------------- C12
\* C12: adding a product whose stock is 0 leaves the cart unchanged and shows
\* a warning (and nothing else), in either register, for every cart and
\* every requested quantity of 1 or more.
C12_ZeroStockAddRejected ==
    [][\A r \in Registers, p \in Products, q \in 1..MaxAddQty :
          (stock[p] = 0 /\ addToCart(r, ProductOf(p), q)) =>
              /\ cart' = cart
              /\ notifications'[r] = <<"warning">>]_vars

\* p1 out of stock, refused in SalesManagement whose cart holds another line
C12_Witness ==
    /\ stock["p1"] = 0
    /\ notifications["SalesManagement"] = <<"warning">>
    /\ Len(cart["SalesManagement"]) = 1
    /\ cart["SalesManagement"][1].productId = "p2"

\* ----------------------------------------------------------------------- C14
\* the line addToCart creates for product p with quantity q
NewLine(p, q) ==
    [productId |-> p, quantity |-> q, unitPrice |-> Price[p], total |-> q * Price[p],
     product |-> ProductOf(p)]

\* C14: add(product, q) leaves the cart unchanged and shows a warning when q
\* exceeds product.stock or the quantity of the existing line plus q would
\* exceed it; otherwise it appends a new line of quantity q when the product
\* has no line, or raises the quantity of the existing line by q and
\* recomputes its total as quantity times unit price, every other line
\* unchanged.
C14_AddContract ==
    [][\A r \in Registers, p \in Products, q \in 1..MaxAddQty :
          addToCart(r, ProductOf(p), q) =>
              LET c == cart[r]
                  e == LineIndex(c, p)
              IN
              /\ \A o \in Registers \ {r} : cart'[o] = cart[o]
              /\ IF q > stock[p] \/ (e # 0 /\ c[e].quantity + q > stock[p])
                 THEN /\ cart'[r] = c
                      /\ \E i \in 1..Len(notifications'[r]) : notifications'[r][i] = "warning"
                 ELSE IF e = 0
                 THEN cart'[r] = Append(c, NewLine(p, q))
                 ELSE /\ Len(cart'[r]) = Len(c)
                      /\ \A i \in 1..Len(c) :
                            IF i = e
                            THEN cart'[r][i] =
                                     [c[e] EXCEPT !.quantity = c[e].quantity + q,
                                                  !.total = (c[e].quantity + q) * c[e].unitPrice]
                            ELSE cart'[r][i] = c[i]]_vars

\* a repeated add merged into the second line of a cart
C14_Witness ==
    LET c == cart["SalesManagement"] IN
    /\ Len(c) = 2
    /\ c[1].productId = "p2" /\ c[1].quantity = 1
    /\ c[2].productId = "p1" /\ c[2].quantity = 2 /\ c[2].total = 2 * Price["p1"]
    /\ notifications["SalesManagement"] = <<"success">>

\* ----------------------------------------------------------------------- C13
\* C13: finalizeSale on an empty cart does nothing.  While the cart of a
\* register is empty, no step starts an invocation for it; while every cart
\* is empty, no create-sale request is sent and no response arrives, and,
\* unless an earlier invocation is still awaiting, no stock update and no
\* stock movement is issued; while the cart is empty and no invocation of
\* the register is awaiting, no step shows the notification of a failed or a
\* finished sale, opens the payment modal or changes the selected payment
\* method, and the cart changes only by a line being added.
C13_EmptyCartNoOp ==
    [][\A r \in Registers :
          cart[r] = << >> =>
              /\ \A k \in 1..MaxCalls :
                    calls[k].pc = "idle" /\ calls'[k].pc # "idle" => calls'[k].reg # r
              /\ (\A o \in Registers : cart[o] = << >>) =>
                    /\ nextId' = nextId /\ response' = response /\ tx' = tx
                    /\ (\A k \in 1..MaxCalls : calls[k].pc = "idle") =>
                          stockMovements' = stockMovements /\ stock' = stock
              /\ (\A k \in 1..MaxCalls : calls[k].reg # r) =>
                    /\ notifications'[r] # notifications[r] =>
                          notifications'[r] \notin {<<"error">>, <<"sale">>}
                    /\ selectedPaymentMethod'[r] = selectedPaymentMethod[r]
                    /\ r = "EnhancedPDV" /\ paymentModalOpen' # paymentModalOpen =>
                          paymentModalOpen
                    /\ cart'[r] # cart[r] => Len(cart'[r]) = 1]_vars

\* Confirmar can be pressed on an emptied cart: the modal is open, the cart
\* is empty, nothing is awaiting, and nothing was ever sent
C13_Witness ==
    /\ paymentModalOpen
    /\ cart["EnhancedPDV"] = << >>
    /\ \A k \in 1..MaxCalls : calls[k].pc = "idle"
    /\ notifications["EnhancedPDV"] = <<"info">>
    /\ nextId = 1 /\ response = NoResponse

\* ----------------------------------------------------------------------- C15
\* the quantities the + and - buttons can ask for
AskedQuantities == 0..(MaxStock + MaxAddQty + 1)

\* C15 as stated (clamping part): when n exceeds the available stock, a
\* warning is shown and the quantity of the line becomes the available stock
\* (the stock recorded in the line, or the current stock of the product).
C15_ClampedToStock ==
    [][\A p \in Products, n \in AskedQuantities :
          LET c == cart["EnhancedPDV"]
              e == LineIndex(c, p)
          IN (e # 0 /\ n > 0 /\ updateCartItemQuantity("EnhancedPDV", p, n)
                    /\ n > c[e].product.stock /\ n > stock[p]) =>
                 /\ notifications'["EnhancedPDV"] = <<"warning">>
                 /\ cart'["EnhancedPDV"][e].quantity \in {c[e].product.stock, stock[p]}]_vars

\* C15 (amended): setQuantity(productId, n) removes the line when n <= 0;
\* when n exceeds the stock recorded in the line when it was added, it shows
\* a warning and leaves the cart unchanged (the quantity is not clamped);
\* otherwise the quantity of the line becomes n and its total n times the
\* unit price; the lines of other products are unchanged in every case.
C15_SetQuantityContract ==
    [][\A p \in Products, n \in AskedQuantities :
          updateCartItemQuantity("EnhancedPDV", p, n) =>
              LET c == cart["EnhancedPDV"]
                  c2 == cart'["EnhancedPDV"]
                  e == LineIndex(c, p)
              IN
              /\ cart'["SalesManagement"] = cart["SalesManagement"]
              /\ \A i \in 1..Len(c) : c[i].productId # p =>
                    \E j \in 1..Len(c2) : c2[j] = c[i]
              /\ IF n <= 0
                 THEN /\ LineIndex(c2, p) = 0
                      /\ Len(c2) = Len(c) - (IF e = 0 THEN 0 ELSE 1)
                 ELSE IF e = 0 THEN c2 = c
                 ELSE IF n > c[e].product.stock
                 THEN c2 = c /\ notifications'["EnhancedPDV"] = <<"warning">>
                 ELSE /\ Len(c2) = Len(c)
                      /\ c2[e] = [c[e] EXCEPT !.quantity = n, !.total = n * c[e].unitPrice]]_vars

\* a + refused on a line whose quantity is above the stock it recorded: the
\* quantity stays
C15_Witness ==
    LET c == cart["EnhancedPDV"] IN
    /\ Len(c) = 1
    /\ c[1].quantity = 2 /\ c[1].product.stock = 1
    /\ notifications["EnhancedPDV"] = <<"warning">>
    /\ stock[c[1].productId] = 2

\* ----------------------------------------------------------------------- C16
\* in a store, every sale has its items and every item has its sale
SaleWithItems(storeSales, storeItems) ==
    /\ \A s \in Range(storeSales) : ItemsCount(storeItems, s.id) >= 1
    /\ \A it \in Range(storeItems) :
          /\ \E s \in Range(storeSales) : s.id = it.sale_id
          /\ \E i \in 1..ItemsCount(storeItems, it.sale_id) : it.id = <<it.sale_id, i>>

\* the sales a step makes visible in a store
NewSales(storeSales, storeSalesAfter) == Range(storeSalesAfter) \ Range(storeSales)

C16_EveryState ==
    [](SaleWithItems(dbSales, dbSaleItems) /\ SaleWithItems(fallbackSales, fallbackSaleItems))

C16_OneItemPerLine ==
    [][/\ \A principal \in TenantPrincipals, header \in Headers, body \in ApiBodies,
             connects \in BOOLEAN :
             PostSale(principal, header, body, Undefined, 0, calls, connects) =>
                 /\ dbSales' = dbSales /\ dbSaleItems' = dbSaleItems
                 /\ \A s \in NewSales(fallbackSales, fallbackSales') :
                       ItemsCount(fallbackSaleItems', s.id) = Len(body.items)
       /\ tx # << >> /\ tx' = << >> =>
             /\ \A s \in NewSales(dbSales, dbSales') :
                   ItemsCount(dbSaleItems', s.id) = Len(tx[1].items)
             /\ \A s \in NewSales(fallbackSales, fallbackSales') :
                   ItemsCount(fallbackSaleItems', s.id) = Len(tx[1].items)
       /\ dbSaleItems' # dbSaleItems => dbSales' # dbSales
       /\ fallbackSaleItems' # fallbackSaleItems => fallbackSales' # fallbackSales]_vars

\* C16: in every reachable state of either store, a sale is visible if and
\* only if all its line items, exactly one per input line, are visible in the
\* same store; a failure in the middle of the write exposes neither a sale
\* with a missing or partial set of items nor items without their sale.
C16_SaleAtomicWithItems == C16_EveryState /\ C16_OneItemPerLine

\* a sale that failed after its first statements was rolled back and written
\* whole to the fallback store, next to a sale committed whole
C16_Witness ==
    /\ tx = << >>
    /\ Len(dbSales) = 1 /\ Len(dbSaleItems) = 2
    /\ Len(fallbackSales) = 1 /\ Len(fallbackSaleItems) = 2
    /\ response.served = "fallback after error"

\* ----------------------------------------------------------------------- C17
\* C17 as stated: the sales report of a tenant and a date range returns the
\* number and the summed totals of the sales of that tenant recorded in the
\* range, whichever store, persistent or fallback, holds them.
C17_ReportCountsRecordedSales ==
    [][\A principal \in TenantPrincipals, header \in Headers, startDate \in ReportDates,
          endDate \in ReportDates, fails \in BOOLEAN :
          GetSalesReport(principal, header, startDate, endDate, fails) =>
              LET businessId == BusinessIdOf(header, principal)
                  from == IF startDate = Undef THEN DefaultStartDate ELSE startDate.v
                  to == IF endDate = Undef THEN nextId ELSE endDate.v
                  recorded == SalesBetween(dbSales \o fallbackSales, businessId, from, to)
              IN /\ response'.body[1].totalSales = Len(recorded)
                 /\ response'.body[1].totalRevenue = OrZero(SumOfTotals(recorded))]_vars

\* ----------------------------------------------------------------------- C18
\* the store a list-businesses response was served from
ServingBusinesses ==
    IF response.served = "db" THEN dbBusinesses ELSE fallbackBusinesses

C18_ListScopedByRole ==
    [](response.op = "listBusinesses" =>
          IF response.principal.role = "super_admin"
          THEN /\ Range(response.body) = Range(ServingBusinesses)
               /\ Len(response.body) = Len(ServingBusinesses)
          ELSE /\ \A b \in Range(response.body) : b.id = response.principal.businessId
               /\ \A b \in Range(ServingBusinesses) :
                     b.id = response.principal.businessId => b \in Range(response.body))

C18_NamelessCreateRejected ==
    [][\A principal \in Principals, header \in Headers, fails \in BOOLEAN :
          PostBusiness(principal, header, Undef, fails) =>
              /\ response'.status >= 400
              /\ requireRole({"super_admin"}, principal) => response'.status = 400
              /\ dbBusinesses' = dbBusinesses
              /\ fallbackBusinesses' = fallbackBusinesses]_vars

C19_TodayShowsTodayOnly ==
    dateFilter = "today" =>
        /\ \A i \in 1..Len(filteredSales) :
              filteredSales[i].date \div TicksPerDay = now \div TicksPerDay
        /\ \A i \in 1..Len(sales) :
              (/\ sales[i].date \div TicksPerDay = now \div TicksPerDay
               /\ MatchesSearch(sales[i])
               /\ paymentFilter \in {"all", sales[i].paymentMethod})
                  => \E j \in 1..Len(filteredSales) : filteredSales[j] = sales[i]

\* a sale made less than a day ago, but yesterday, is left out, and the sale
\* of today is listed
C19_Witness ==
    /\ dateFilter = "today"
    /\ Len(sales) = 2
    /\ sales[1].date = now - 1
    /\ sales[1].date \div TicksPerDay # now \div TicksPerDay
    /\ sales[2].date = now
    /\ filteredSales = <<sales[2]>>

\* ----------------------------------------------------------------------- C20
\* C20 as stated: a list-sales response served from the fallback store holds
\* the sales the persistent store would return for the same creates: those of
\* the same tenant identifier, newest first.
C20_FallbackListLikePersistent ==
    response.op = "listSales" /\ response.served # "db" =>
        LET businessId == BusinessIdOf(response.header, response.principal) IN
        response.body =
            WithItemsCount(
                OrderByCreatedAtDesc(
                    SelectSeq(fallbackSales, LAMBDA sale : sale.business_id = businessId)),
                fallbackSaleItems)

\* ----------------------------------------------------------------------- C21
\* C21 as stated: the total of a sale created from the lines the register
\* sends (productId, quantity, unitPrice) is the sum of quantity x unit price
\* minus the discount (none is sent: 0), which is the total the register
\* computed for the cart.
C21_TotalOfClientLines ==
    \A k \in 1..MaxCalls :
        calls[k].pc = "stock" =>
            \A sale \in Range(dbSales) \cup Range(fallbackSales) :
                sale.id = calls[k].saleId =>
                    /\ sale.total = Num(SumQuantityTimesPrice(calls[k].cart))
                    /\ sale.total = Num(SumTotals(calls[k].cart, 0))

\* ----------------------------------------------------------------------- C22
C22_OneLinePerProduct ==
    [](\A r \in Registers : \A i, j \in 1..Len(cart[r]) :
          cart[r][i].productId = cart[r][j].productId => i = j)

C22_RepeatedAddMerges ==
    [][\A p \in Products, q \in 1..MaxAddQty :
          LET c == cart["EnhancedPDV"]
              e == LineIndex(c, p)
          IN (e # 0 /\ addToCart("EnhancedPDV", ProductOf(p), q)) =>
                 /\ Len(cart'["EnhancedPDV"]) = Len(c)
                 /\ cart'["EnhancedPDV"][e].quantity \in {c[e].quantity, c[e].quantity + q}
                 /\ (stock[p] >= q /\ c[e].quantity + q <= stock[p]) =>
                        cart'["EnhancedPDV"][e].quantity = c[e].quantity + q]_vars

\* C22: after any sequence of cart operations the cart holds at most one
\* line per product identifier: adding a product that already has a line
\* increases the quantity of that line (when the stock allows the add)
\* instead of creating a second line.
C22_CartKeyedByProduct == C22_OneLinePerProduct /\ C22_RepeatedAddMerges

\* a cart of two products, the first added again after a restock: its line
\* holds more than the stock it recorded, which only a merging add produces
C22_Witness ==
    LET c == cart["EnhancedPDV"] IN
    /\ Len(c) = 2
    /\ c[1].quantity = 2 /\ c[1].product.stock = 1
    /\ notifications["EnhancedPDV"] = <<"success">>

\* ----------------------------------------------------------------------- C23
\* C23: sales, sale items and stock movements are append-only: once a record
\* is visible in a store, every later operation leaves it present, unmodified
\* and in the same relative position; no operation updates or deletes it.
C23_AppendOnly ==
    [][/\ IsPrefix(dbSales, dbSales')
       /\ IsPrefix(dbSaleItems, dbSaleItems')
       /\ IsPrefix(fallbackSales, fallbackSales')
       /\ IsPrefix(fallbackSaleItems, fallbackSaleItems')
       /\ IsPrefix(dbStockMovements, dbStockMovements')
       /\ IsPrefix(fallbackStockMovements, fallbackStockMovements')]_vars

\* a movement was written after a sale, which stayed as it was
C23_Witness ==
    /\ Len(fallbackSales) = 1
    /\ Len(fallbackStockMovements) = 1
    /\ response.op = "createMovement" /\ response.status = 201

CreateOps == {"createSale", "createMovement", "createProduct", "createNFCe"}
PersistentRecords(op) ==
    CASE op = "createSale" -> Range(dbSales)
      [] op = "createMovement" -> Range(dbStockMovements)
      [] op = "createProduct" -> Range(dbProducts)
      [] op = "createNFCe" -> Range(dbNFCe)
FallbackRecords(op) ==
    CASE op = "createSale" -> Range(fallbackSales)
      [] op = "createMovement" -> Range(fallbackStockMovements)
      [] op = "createProduct" -> Range(fallbackProducts)
      [] op = "createNFCe" -> Range(fallbackNFCe)

C25_ExactlyOneStore ==
    [](response.op \in CreateOps /\ response.status = 201 =>
          LET inPersistent == response.body[1] \in PersistentRecords(response.op)
              inFallback == response.body[1] \in FallbackRecords(response.op)
          IN /\ inPersistent # inFallback
             /\ inFallback <=> response.served \in {"fallback", "fallback after error"})

C25_FallbackIffNoPoolOrThrow ==
    [][(response' # response /\ response'.op \in CreateOps /\ response'.status = 201) =>
          /\ response'.served = "fallback" <=> pool = NULL
          /\ response'.served \in {"db", "fallback after error"} <=> pool # NULL]_vars

\* C25: every create request that returns 201 has written its record to
\* exactly one of the two stores: to the fallback store if and only if no
\* pool exists or the persistent operation threw, and never to both.
C25_CreateWritesOneStore == C25_ExactlyOneStore /\ C25_FallbackIffNoPoolOrThrow

\* a sale whose transaction threw: answered 201 from the fallback store, with
\* nothing of it in the persistent store
C25_Witness ==
    /\ pool # NULL
    /\ response.op = "createSale" /\ response.status = 201
    /\ response.served = "fallback after error"
    /\ response.body[1] \in Range(fallbackSales)
    /\ dbSales = << >> /\ dbSaleItems = << >>

\* ----------------------------------------------------------------------- C26
\* C26 as stated (finalize triggered again): while a finalize of the register
\* is still awaiting its sale-creation or stock-update call for the cart the
\* register holds, no second sale is created for that cart.
C26_OneSalePerCart ==
    [][(\E k \in 1..MaxCalls :
           /\ calls[k].pc # "idle"
           /\ calls[k].reg = "EnhancedPDV"
           /\ calls[k].cart = cart["EnhancedPDV"])
          => /\ nextId' = nextId
             /\ Len(fallbackSales') + Len(dbSales') + Len(tx') <=
                    Len(fallbackSales) + Len(dbSales) + Len(tx)]_vars

\* ----------------------------------------------------------------------- C27
\* C27 as stated: every add call produces exactly one notification, a warning
\* when the add is rejected for insufficient stock (cart unchanged), a success
\* notification when the cart was changed; a rejected add never shows the
\* success notification.
C27_OneNotificationPerAdd ==
    [][\A r \in Registers, p \in Products, q \in 1..MaxAddQty :
          addToCart(r, ProductOf(p), q) =>
              /\ Len(notifications'[r]) = 1
              /\ cart'[r] = cart[r] => notifications'[r] = <<"warning">>
              /\ cart'[r] # cart[r] => notifications'[r] = <<"success">>]_vars

\* ----------------------------------------------------------------------- C28
C28_ShortcutsBlocked ==
    [][\A key \in Keys :
          (handleKeyPress(key) /\ (isStandBy \/ paymentModalOpen \/ scannerOpen)) =>
              /\ cart' = cart
              /\ paymentModalOpen' = paymentModalOpen
              /\ scannerOpen' = scannerOpen
              /\ ~isStandBy']_vars

C28_ShortcutsPerformed ==
    [][\A key \in Keys :
          (handleKeyPress(key) /\ ~(isStandBy \/ paymentModalOpen \/ scannerOpen)) =>
              /\ paymentModalOpen' <=> (key = "F2" /\ cart["EnhancedPDV"] # << >>)
              /\ key = "F1" => cart'["EnhancedPDV"] = << >>
              /\ key = "F3" => isStandBy'
              /\ key = "F4" => scannerOpen']_vars

C28_ModalOpenedOnItems ==
    [][(~paymentModalOpen /\ paymentModalOpen') => cart["EnhancedPDV"] # << >>]_vars

\* C28: while the register is in stand-by, or the payment modal or the
\* scanner is open, the F1-F4 shortcut actions (clear cart, open payment
\* modal, enter stand-by, open scanner) are not performed; otherwise F2 opens
\* the payment modal only when the cart is non-empty, so the payment modal
\* is never opened on an empty cart.
C28_ShortcutsGuarded ==
    C28_ShortcutsBlocked /\ C28_ShortcutsPerformed /\ C28_ModalOpenedOnItems

\* a key pressed while the scanner was open next to a cart with items: the
\* scanner is still open, the cart is kept, the modal stayed closed
C28_Witness ==
    /\ scannerOpen /\ ~paymentModalOpen /\ ~isStandBy
    /\ cart["EnhancedPDV"] # << >>
    /\ standbyTimer = "armed"

\* ----------------------------------------------------------------------- C29
\* the status of the user a login was answered for, in the store that served it
StatusOfUser(served, id) ==
    LET users == IF served = "db" THEN dbUsers ELSE fallbackData.users
        user == Find(users, LAMBDA u : u.id = id)
    IN IF user = << >> THEN NULL ELSE user[1].status

\* C29: a login that is not the super-admin's answers 200 with a token only
\* for a user whose status is approved, whichever store served the lookup; a
\* pending or rejected user gets 401.
C29_TokenOnlyIfApproved ==
    [][\A email \in UserEmails, password \in Passwords, role \in Roles, fails \in BOOLEAN :
          (Login(email, password, role, fails) /\ response'.status = 200)
              => StatusOfUser(response'.served, response'.body[1].id) = "approved"]_vars

\* ----------------------------------------------------------------------- C30
\* no transaction in flight: no connection got by transaction() is held
C30_NoneHeldWhenIdle == tx = << >> => held = 0

\* a transaction in flight holds the one connection it got
C30_OneHeldInFlight == tx # << >> => held = 1

\* the step in which transaction() returns or throws releases that connection,
\* once, whichever await failed
C30_ReleasedOnReturnOrThrow ==
    [][(tx # << >> /\ tx' = << >>) => (held = 1 /\ held' = 0)]_vars

\* C30: Database.transaction releases the connection it acquired exactly once
\* on every path (commit; failure of beginTransaction, of a statement, of the
\* commit or of the rollback), so once every transaction has returned or
\* thrown no connection acquired by transaction is still held.
C30_ConnectionReleasedOnce ==
    /\ []C30_NoneHeldWhenIdle
    /\ []C30_OneHeldInFlight
    /\ C30_ReleasedOnReturnOrThrow

\* one transaction committed and a later one threw; both have ended
C30_Witness ==
    /\ tx = << >>
    /\ held = 0
    /\ Len(dbSales) = 1
    /\ response.op = "createSale"
    /\ response.served = "fallback after error"

====
